---- MODULE Spec2Model ----
(***************************************************************************)
(* The Post model (core/server/adapters/storage/LocalFileStorage.js,       *)
(* "# Post Model" onwards): add and edit of a content item, with the       *)
(* onSaving hook (status and date validation, rendering, published_at and  *)
(* published_by, slug, revisions) and the events derived by onSaved and    *)
(* onUpdated.                                                              *)
(*                                                                         *)
(* A record stands for a JavaScript object; a key missing from DOMAIN is   *)
(* an absent property.  Strings (titles, slugs) are sequences of           *)
(* one-character strings, so that normalisation is computed.  Instants are *)
(* integers in milliseconds.                                               *)
(***************************************************************************)
EXTENDS Integers, Sequences, FiniteSets, TLC

VARIABLES
    posts,      \* id -> row of the posts table
    revisions,  \* id -> rows of mobiledoc_revisions of that post, in insertion order
    emails,     \* ids of posts for which an email record exists
    now,        \* the wall clock, in milliseconds
    last,       \* the last operation: its name, target, payload, options and the rows before it
    result,     \* how the last operation ended: "ok" or the name of the error
    events,     \* the events the last operation emitted, in order
    publishers, \* history: id -> the actor of the item's latest change to published
    imported,   \* history: ids of the items an importing save has written
    history,    \* history: the operations so far, each with its payload, events and row
    txs,        \* the open transactions: transaction id -> its operation, rows written and events queued
    sink        \* history: the events the event sink has received, each with its mutation and item

vars ==
    <<posts, revisions, emails, now, last, result, events, publishers, imported, history, txs,
      sink>>

observers == <<publishers, imported, history, sink>>

\* ------------------------------------------------------------------ values

MOBILEDOC_REVISIONS_COUNT == 10

ALL_STATUSES == {"published", "draft", "scheduled"}

cannotScheduleAPostBeforeInMinutes == 2

MsPerMinute == 60000

\* null / undefined of a string-valued attribute
NullStr == "null"

\* null / undefined published_at, and a value moment() cannot parse
NullDate == -1
InvalidDate == -2

Epoch == MsPerMinute

DateAt(k) == Epoch + k * MsPerMinute

\* the user the model layer acts as in an internal context
internalUser == "1"

\* mobiledocLib.blankDocument, serialised
blankDocument == "blank"

\* i18n 'errors.models.post.untitled'
untitled == <<"(", "U", ")">>

\* ------------------------------------------------------------------ bounds

MaxPosts == 2
MaxMinutes == 2
MaxMillis == 1
MaxHistory == 4
MaxConcurrent == 2
MaxTitled == 3

Ids == 1..(MaxPosts + 1)

\* ------------------------------------------------------------------ strings

UpperToLower ==
    ("H" :> "h") @@ ("I" :> "i") @@ ("Y" :> "y") @@ ("O" :> "o") @@ ("U" :> "u") @@ ("W" :> "w")

SlugChars == {"h", "i", "y", "o", "u", "p", "s", "t", "-", "e", "l", "w", "r", "d",
              "0", "1", "2", "3", "4", "5", "6", "7", "8", "9"}

DigitChars == <<"0", "1", "2", "3", "4", "5", "6", "7", "8", "9">>

RECURSIVE Digits(_)
Digits(n) == IF n < 10 THEN <<DigitChars[n + 1]>>
             ELSE Digits(n \div 10) \o <<DigitChars[(n % 10) + 1]>>

RECURSIVE safe(_)
safe(s) ==
    IF s = <<>> THEN <<>>
    ELSE LET c == Head(s)
             d == IF c \in DOMAIN UpperToLower THEN UpperToLower[c]
                  ELSE IF c = " " THEN "-" ELSE c
         IN  (IF d \in SlugChars THEN <<d>> ELSE <<>>) \o safe(Tail(s))

RECURSIVE trim(_)
trim(s) ==
    IF s = <<>> THEN s
    ELSE IF Head(s) = " " THEN trim(Tail(s))
    ELSE IF s[Len(s)] = " " THEN trim(SubSeq(s, 1, Len(s) - 1))
    ELSE s

\* ------------------------------------------------------------------ renderer

\* mobiledocs the renderer accepts; any other throws
Renderable == {"m1", "m2", blankDocument}

render(mobiledoc) ==
    CASE mobiledoc = "m1" -> "h1"
      [] mobiledoc = "m2" -> "h2"
      [] OTHER -> "h0"

fromString(html) ==
    CASE html = "h1" -> "t1"
      [] html = "h2" -> "t2"
      [] html = "hx" -> "tx"
      [] OTHER -> "t0"

\* ------------------------------------------------------------------ the model object

defaults ==
    [status |-> "draft", type |-> "post", send_email_when_published |-> FALSE]

\* the attributes of a new model before anything is set
NoAttrs ==
    [status |-> NullStr, type |-> NullStr, title |-> <<>>, slug |-> <<>>,
     mobiledoc |-> NullStr, html |-> NullStr, plaintext |-> NullStr,
     published_at |-> NullDate, published_by |-> NullStr,
     send_email_when_published |-> FALSE]

Overlay(base, data) ==
    [f \in DOMAIN base |-> IF f \in DOMAIN data THEN data[f] ELSE base[f]]

\* model.previous(..) and model.get(..) when the save starts
Forge(method, stored, data) ==
    IF method = "insert"
    THEN [method |-> method, prev |-> NoAttrs,
          attrs |-> Overlay(Overlay(NoAttrs, defaults), data)]
    ELSE [method |-> method, prev |-> stored, attrs |-> Overlay(stored, data)]

hasChanged(m, f) == m.attrs[f] # m.prev[f]

hasDateChanged(m, f) == m.attrs[f] # m.prev[f]

set(m, f, v) == [m EXCEPT !.attrs[f] = v]

contextUser(options) == IF options.internal THEN internalUser ELSE options.user

\* ------------------------------------------------------------------ slugs

RECURSIVE checkIfSlugExists(_, _, _)
checkIfSlugExists(slug, slugTryCount, taken) ==
    LET slugToFind == IF slugTryCount = 1 THEN slug
                      ELSE slug \o <<"-">> \o Digits(slugTryCount)
    IN  IF slugToFind \notin taken THEN slugToFind
        ELSE checkIfSlugExists(slug, slugTryCount + 1, taken)

\* the slugs of the other items
TakenSlugs(db, id) == {db[i].slug : i \in DOMAIN db \ {id}}

generateSlug(base, db, id) ==
    LET s == safe(base)
        slug == IF s = <<>> THEN <<"p", "o", "s", "t">> ELSE s
    IN  checkIfSlugExists(slug, 1, TakenSlugs(db, id))

\* ------------------------------------------------------------------ onSaving

\* StatusError, with the published -> scheduled check skipped for an import
StatusError_ImportSkips(m, options, clock) ==
    LET newStatus == m.attrs.status
        olderStatus == m.prev.status
        publishedAt == m.attrs.published_at
    IN  IF /\ newStatus # olderStatus /\ newStatus = "scheduled" /\ olderStatus = "published"
           /\ ~options.importing
        THEN "ValidationError"
        ELSE IF newStatus = "scheduled"
        THEN IF publishedAt = NullDate THEN "ValidationError"
             ELSE IF publishedAt = InvalidDate THEN "ValidationError"
             ELSE IF /\ m.attrs.published_at # m.prev.published_at
                     /\ publishedAt < clock + cannotScheduleAPostBeforeInMinutes * MsPerMinute
                     /\ ~options.importing
                     /\ ~options.internal
             THEN "ValidationError"
             ELSE "none"
        ELSE "none"

\* StatusError, with publishedAt compared to now instead of now + lead time
StatusError_NoLeadTime(m, options, clock) ==
    LET newStatus == m.attrs.status
        olderStatus == m.prev.status
        publishedAt == m.attrs.published_at
    IN  IF newStatus # olderStatus /\ newStatus = "scheduled" /\ olderStatus = "published"
        THEN "ValidationError"
        ELSE IF newStatus = "scheduled"
        THEN IF publishedAt = NullDate THEN "ValidationError"
             ELSE IF publishedAt = InvalidDate THEN "ValidationError"
             ELSE IF /\ m.attrs.published_at # m.prev.published_at
                     /\ publishedAt < clock
                     /\ ~options.importing
                     /\ ~options.internal
             THEN "ValidationError"
             ELSE "none"
        ELSE "none"

\* StatusError, without the isValid check of publishedAt
StatusError_NoValidCheck(m, options, clock) ==
    LET newStatus == m.attrs.status
        olderStatus == m.prev.status
        publishedAt == m.attrs.published_at
    IN  IF newStatus # olderStatus /\ newStatus = "scheduled" /\ olderStatus = "published"
        THEN "ValidationError"
        ELSE IF newStatus = "scheduled"
        THEN IF publishedAt = NullDate THEN "ValidationError"
             ELSE IF /\ m.attrs.published_at # m.prev.published_at
                     /\ publishedAt < clock + cannotScheduleAPostBeforeInMinutes * MsPerMinute
                     /\ ~options.importing
                     /\ ~options.internal
             THEN "ValidationError"
             ELSE "none"
        ELSE "none"

\* lines 413-450: the status and published_at checks
StatusError(m, options, clock) ==
    LET newStatus == m.attrs.status
        olderStatus == m.prev.status
        publishedAt == m.attrs.published_at
    IN  IF newStatus # olderStatus /\ newStatus = "scheduled" /\ olderStatus = "published"
        THEN "ValidationError"
        ELSE IF newStatus = "scheduled"
        THEN IF publishedAt = NullDate THEN "ValidationError"
             ELSE IF publishedAt = InvalidDate THEN "ValidationError"
             ELSE IF /\ hasDateChanged(m, "published_at")
                     /\ publishedAt < clock + cannotScheduleAPostBeforeInMinutes * MsPerMinute
                     /\ ~options.importing
                     /\ ~options.internal
             THEN "ValidationError"
             ELSE "none"
        ELSE "none"

\* GeneratedFields, with the html and plaintext of the payload left in place
GeneratedFields_KeepsPayload(m, options) == m

\* lines 490-497: generated fields cannot be set by the caller
GeneratedFields(m, options) ==
    IF options.migrating THEN m
    ELSE LET m1 == IF hasChanged(m, "html") THEN set(m, "html", m.prev.html) ELSE m
         IN  IF hasChanged(m1, "plaintext") THEN set(m1, "plaintext", m1.prev.plaintext) ELSE m1

\* lines 499-501
BlankMobiledoc(m) ==
    IF m.attrs.mobiledoc = NullStr THEN set(m, "mobiledoc", blankDocument) ELSE m

\* RenderError, with the exception of the renderer swallowed
RenderError_Swallowed(m, options) == "none"

\* lines 545-549
NeedsRender(m, options) ==
    \/ hasChanged(m, "mobiledoc")
    \/ options.force_rerender
    \/ (m.attrs.html = NullStr /\ (options.migrating \/ options.importing))

RenderError(m, options) ==
    IF NeedsRender(m, options) /\ m.attrs.mobiledoc \notin Renderable
    THEN "ValidationError" ELSE "none"

\* lines 545-582
Html(m, options) ==
    LET m1 == IF NeedsRender(m, options) THEN set(m, "html", render(m.attrs.mobiledoc)) ELSE m
    IN  IF hasChanged(m1, "html") \/ m1.attrs.plaintext = NullStr
        THEN LET plaintext == IF m1.attrs.html = NullStr THEN NullStr
                              ELSE fromString(m1.attrs.html)
             IN  set(m1, "plaintext", plaintext)
        ELSE m1

\* lines 584-588
Title(m, options) ==
    IF options.importing THEN m
    ELSE set(m, "title", trim(IF m.attrs.title = <<>> THEN untitled ELSE m.attrs.title))

\* lines 590-594; publishedAt and newStatus are the values read when the hook started
PublishedAt(m, m0, clock) ==
    IF m0.attrs.status = "published" /\ m0.attrs.published_at = NullDate
    THEN set(m, "published_at", clock) ELSE m

\* PublishedBy, with a published_by of the payload left in place
PublishedBy_KeepsPayload(m, m0, options) ==
    IF m0.attrs.status = "published" /\ m.attrs.status # m.prev.status
    THEN IF ~(m.attrs.published_by # NullStr /\ options.importing)
         THEN set(m, "published_by", contextUser(options)) ELSE m
    ELSE m

\* lines 596-607
PublishedBy(m, m0, options) ==
    IF m0.attrs.status = "published" /\ hasChanged(m, "status")
    THEN IF ~(m.attrs.published_by # NullStr /\ options.importing)
         THEN set(m, "published_by", contextUser(options)) ELSE m
    ELSE IF hasChanged(m, "published_by") /\ ~options.importing
         THEN set(m, "published_by", m.prev.published_by) ELSE m

\* SendEmail, resetting the flag of a draft without looking for an email
SendEmail_AlwaysResets(m, m0, options, hasEmail) ==
    LET newStatus == m0.attrs.status
        m1 == IF /\ options.send_email_when_published
                 /\ hasChanged(m, "status")
                 /\ newStatus \in {"published", "scheduled"}
              THEN set(m, "send_email_when_published", TRUE) ELSE m
    IN  IF newStatus = "draft" /\ hasChanged(m1, "status")
        THEN set(m1, "send_email_when_published", FALSE) ELSE m1

\* lines 609-625, with the op ensureSendEmailWhenPublishedIsUnchanged
SendEmail(m, m0, options, hasEmail) ==
    LET newStatus == m0.attrs.status
        m1 == IF /\ options.send_email_when_published
                 /\ hasChanged(m, "status")
                 /\ newStatus \in {"published", "scheduled"}
              THEN set(m, "send_email_when_published", TRUE) ELSE m
    IN  IF newStatus = "draft" /\ hasChanged(m1, "status")
        THEN set(m1, "send_email_when_published", hasEmail) ELSE m1

\* updateSlug, with a slug of the payload stored as it came
updateSlug_TrustsGivenSlug(m, m0, db, id) ==
    IF /\ m0.method # "insert"
       /\ m0.attrs.title # m0.prev.title
       /\ m0.attrs.status = "draft"
       /\ m0.attrs.published_at = NullDate
    THEN LET slug == generateSlug(m.attrs.title, db, id)
             prevTitleSlug == generateSlug(m0.prev.title, db, id)
         IN  IF prevTitleSlug = m0.prev.slug THEN set(m, "slug", slug) ELSE m
    ELSE IF m.attrs.slug = <<>>
         THEN set(m, "slug", generateSlug(m.attrs.title, db, id))
         ELSE m

\* updateSlug, giving a retitled draft the slug of its new title whatever its slug was
updateSlug_AlwaysRegenerates(m, m0, db, id) ==
    IF /\ m0.method # "insert"
       /\ m0.attrs.title # m0.prev.title
       /\ m0.attrs.status = "draft"
       /\ m0.attrs.published_at = NullDate
    THEN set(m, "slug", generateSlug(m.attrs.title, db, id))
    ELSE IF hasChanged(m, "slug") \/ m.attrs.slug = <<>>
         THEN set(m, "slug",
                  generateSlug(IF m.attrs.slug # <<>> THEN m.attrs.slug ELSE m.attrs.title,
                               db, id))
         ELSE m

\* updateSlug, generating a slug only when the slug was changed
updateSlug_OnlyWhenChanged(m, m0, db, id) ==
    IF /\ m0.method # "insert"
       /\ m0.attrs.title # m0.prev.title
       /\ m0.attrs.status = "draft"
       /\ m0.attrs.published_at = NullDate
    THEN LET slug == generateSlug(m.attrs.title, db, id)
             prevTitleSlug == generateSlug(m0.prev.title, db, id)
         IN  IF prevTitleSlug = m0.prev.slug THEN set(m, "slug", slug) ELSE m
    ELSE IF hasChanged(m, "slug")
         THEN set(m, "slug",
                  generateSlug(IF m.attrs.slug # <<>> THEN m.attrs.slug ELSE m.attrs.title,
                               db, id))
         ELSE m

\* lines 627-660; newTitle, prevTitle, prevSlug and publishedAt were read when the hook started
updateSlug(m, m0, db, id) ==
    IF /\ m0.method # "insert"
       /\ m0.attrs.title # m0.prev.title
       /\ m0.attrs.status = "draft"
       /\ m0.attrs.published_at = NullDate
    THEN LET slug == generateSlug(m.attrs.title, db, id)
             prevTitleSlug == generateSlug(m0.prev.title, db, id)
         IN  IF prevTitleSlug = m0.prev.slug THEN set(m, "slug", slug) ELSE m
    ELSE IF hasChanged(m, "slug") \/ m.attrs.slug = <<>>
         THEN set(m, "slug",
                  generateSlug(IF m.attrs.slug # <<>> THEN m.attrs.slug ELSE m.attrs.title,
                               db, id))
         ELSE m

Min(a, b) == IF a < b THEN a ELSE b

\* findAll orders the rows newest first, rows of equal created_at_ts in any order:
\* the sets of rows (indices into revs) that can be its first n
NewestFirst(revs, n) ==
    {K \in SUBSET (1..Len(revs)) :
        /\ Cardinality(K) = Min(Len(revs), n)
        /\ \A i \in K, j \in (1..Len(revs)) \ K :
              revs[i].created_at_ts >= revs[j].created_at_ts}

\* the rows of revs at the indices K, in insertion order
Rows(revs, K) ==
    LET marked == [i \in 1..Len(revs) |-> [row |-> revs[i], keep |-> i \in K]]
        kept == SelectSeq(marked, LAMBDA x : x.keep)
    IN  [i \in 1..Len(kept) |-> kept[i].row]

\* updateRevisions, keeping MOBILEDOC_REVISIONS_COUNT old rows instead of one fewer
updateRevisions_KeepsCount(m, options, revs, clock) ==
    IF m.attrs.mobiledoc # m.prev.mobiledoc /\ ~options.importing /\ ~options.migrating
    THEN IF Len(revs) = 0 /\ m.method # "insert"
         THEN {<<[mobiledoc |-> m.prev.mobiledoc, created_at_ts |-> clock - 1],
                 [mobiledoc |-> m.attrs.mobiledoc, created_at_ts |-> clock]>>}
         ELSE {Rows(revs, K) \o <<[mobiledoc |-> m.attrs.mobiledoc, created_at_ts |-> clock]>> :
               K \in NewestFirst(revs, MOBILEDOC_REVISIONS_COUNT)}
    ELSE {revs}

\* updateRevisions, slicing the rows from the other end: slice(-(COUNT - 1))
updateRevisions_SlicesTail(m, options, revs, clock) ==
    IF m.attrs.mobiledoc # m.prev.mobiledoc /\ ~options.importing /\ ~options.migrating
    THEN IF Len(revs) = 0 /\ m.method # "insert"
         THEN {<<[mobiledoc |-> m.prev.mobiledoc, created_at_ts |-> clock - 1],
                 [mobiledoc |-> m.attrs.mobiledoc, created_at_ts |-> clock]>>}
         ELSE {Rows(revs, K) \o <<[mobiledoc |-> m.attrs.mobiledoc, created_at_ts |-> clock]>> :
               K \in {J \in SUBSET (1..Len(revs)) :
                        /\ Cardinality(J) = Min(Len(revs), MOBILEDOC_REVISIONS_COUNT - 1)
                        /\ \A i \in J, j \in (1..Len(revs)) \ J :
                              revs[i].created_at_ts <= revs[j].created_at_ts}}
    ELSE {revs}

\* updateRevisions, seeding an empty log with the new body only
updateRevisions_NoSeed(m, options, revs, clock) ==
    IF m.attrs.mobiledoc # m.prev.mobiledoc /\ ~options.importing /\ ~options.migrating
    THEN {Rows(revs, K) \o <<[mobiledoc |-> m.attrs.mobiledoc, created_at_ts |-> clock]>> :
          K \in NewestFirst(revs, MOBILEDOC_REVISIONS_COUNT - 1)}
    ELSE {revs}

\* updateRevisions, recording imports and migrations as well
updateRevisions_AlsoImports(m, options, revs, clock) ==
    IF hasChanged(m, "mobiledoc")
    THEN IF Len(revs) = 0 /\ m.method # "insert"
         THEN {<<[mobiledoc |-> m.prev.mobiledoc, created_at_ts |-> clock - 1],
                 [mobiledoc |-> m.attrs.mobiledoc, created_at_ts |-> clock]>>}
         ELSE {Rows(revs, K) \o <<[mobiledoc |-> m.attrs.mobiledoc, created_at_ts |-> clock]>> :
               K \in NewestFirst(revs, MOBILEDOC_REVISIONS_COUNT - 1)}
    ELSE {revs}

\* lines 662-705: the logs the save may leave
updateRevisions(m, options, revs, clock) ==
    IF hasChanged(m, "mobiledoc") /\ ~options.importing /\ ~options.migrating
    THEN IF Len(revs) = 0 /\ m.method # "insert"
         THEN {<<[mobiledoc |-> m.prev.mobiledoc, created_at_ts |-> clock - 1],
                 [mobiledoc |-> m.attrs.mobiledoc, created_at_ts |-> clock]>>}
         ELSE {Rows(revs, K) \o <<[mobiledoc |-> m.attrs.mobiledoc, created_at_ts |-> clock]>> :
               K \in NewestFirst(revs, MOBILEDOC_REVISIONS_COUNT - 1)}
    ELSE {revs}

\* lines 393-708: the error of the save, or "none"
onSavingError(m0, options, clock) ==
    IF StatusError(m0, options, clock) # "none" THEN StatusError(m0, options, clock)
    ELSE RenderError(BlankMobiledoc(GeneratedFields(m0, options)), options)

\* lines 393-708: the model once the hook and its ops have run
onSaving(m0, options, clock, db, id, hasEmail) ==
    LET m1 == GeneratedFields(m0, options)
        m2 == BlankMobiledoc(m1)
        m3 == Html(m2, options)
        m4 == Title(m3, options)
        m5 == PublishedAt(m4, m0, clock)
        m6 == PublishedBy(m5, m0, options)
        m7 == SendEmail(m6, m0, options, hasEmail)
    IN  updateSlug(m7, m0, db, id)

\* ------------------------------------------------------------------ events

emitChange(resourceType, event) == <<resourceType \o "." \o event>>

\* onSaved, without the return for a save that is not an insert
onSaved_NoMethodCheck(m) ==
    <<m.attrs.type \o ".added">>
    \o (IF m.attrs.status \in {"published", "scheduled"}
        THEN <<m.attrs.type \o "." \o m.attrs.status>> ELSE <<>>)

\* lines 237-251
onSaved(m) ==
    IF m.method # "insert" THEN <<>>
    ELSE emitChange(m.attrs.type, "added")
         \o (IF m.attrs.status \in {"published", "scheduled"}
             THEN emitChange(m.attrs.type, m.attrs.status) ELSE <<>>)

\* onUpdated, taking a published item for one that has just been published
onUpdated_SpuriousPublished(m) ==
    LET statusChanging == m.attrs.status # m.prev.status
        isPublished == m.attrs.status = "published"
        isScheduled == m.attrs.status = "scheduled"
        wasPublished == m.prev.status = "published"
        wasScheduled == m.prev.status = "scheduled"
        resourceTypeChanging == m.attrs.type # m.prev.type
        needsReschedule == m.attrs.published_at # m.prev.published_at /\ isScheduled
        old == m.prev.type
        new == m.attrs.type
        When(c, e) == IF c THEN <<e>> ELSE <<>>
    IN  IF resourceTypeChanging
        THEN When(wasPublished, old \o ".unpublished")
             \o When(wasScheduled, old \o ".unscheduled")
             \o <<old \o ".deleted", new \o ".added">>
             \o When(isPublished, new \o ".published")
             \o When(isScheduled, new \o ".scheduled")
        ELSE When(statusChanging /\ wasPublished, new \o ".unpublished")
             \o When(isPublished, new \o ".published")
             \o When(statusChanging /\ isScheduled, new \o ".scheduled")
             \o When(statusChanging /\ wasScheduled /\ ~isScheduled /\ ~isPublished,
                     new \o ".unscheduled")
             \o When(~statusChanging /\ needsReschedule, new \o ".rescheduled")
             \o <<new \o ".edited">>

\* onUpdated, emitting unscheduled also when a scheduled item is published
onUpdated_UnscheduledOnPublish(m) ==
    LET statusChanging == m.attrs.status # m.prev.status
        isPublished == m.attrs.status = "published"
        isScheduled == m.attrs.status = "scheduled"
        wasPublished == m.prev.status = "published"
        wasScheduled == m.prev.status = "scheduled"
        resourceTypeChanging == m.attrs.type # m.prev.type
        publishedAtHasChanged == hasDateChanged(m, "published_at")
        needsReschedule == publishedAtHasChanged /\ isScheduled
        old == m.prev.type
        new == m.attrs.type
        When(c, e) == IF c THEN e ELSE <<>>
    IN  IF resourceTypeChanging
        THEN When(wasPublished, emitChange(old, "unpublished"))
             \o When(wasScheduled, emitChange(old, "unscheduled"))
             \o emitChange(old, "deleted")
             \o emitChange(new, "added")
             \o When(isPublished, emitChange(new, "published"))
             \o When(isScheduled, emitChange(new, "scheduled"))
        ELSE (IF statusChanging
              THEN When(wasPublished, emitChange(new, "unpublished"))
                   \o When(isPublished, emitChange(new, "published"))
                   \o When(isScheduled, emitChange(new, "scheduled"))
                   \o When(wasScheduled /\ ~isScheduled,
                           emitChange(new, "unscheduled"))
              ELSE When(isPublished, emitChange(new, "published.edited"))
                   \o When(needsReschedule, emitChange(new, "rescheduled")))
             \o emitChange(new, "edited")

\* onUpdated, emitting rescheduled for every edit of a scheduled item
onUpdated_RescheduleAlways(m) ==
    LET statusChanging == m.attrs.status # m.prev.status
        isPublished == m.attrs.status = "published"
        isScheduled == m.attrs.status = "scheduled"
        wasPublished == m.prev.status = "published"
        wasScheduled == m.prev.status = "scheduled"
        resourceTypeChanging == m.attrs.type # m.prev.type
        publishedAtHasChanged == hasDateChanged(m, "published_at")
        needsReschedule == isScheduled
        old == m.prev.type
        new == m.attrs.type
        When(c, e) == IF c THEN e ELSE <<>>
    IN  IF resourceTypeChanging
        THEN When(wasPublished, emitChange(old, "unpublished"))
             \o When(wasScheduled, emitChange(old, "unscheduled"))
             \o emitChange(old, "deleted")
             \o emitChange(new, "added")
             \o When(isPublished, emitChange(new, "published"))
             \o When(isScheduled, emitChange(new, "scheduled"))
        ELSE (IF statusChanging
              THEN When(wasPublished, emitChange(new, "unpublished"))
                   \o When(isPublished, emitChange(new, "published"))
                   \o When(isScheduled, emitChange(new, "scheduled"))
                   \o When(wasScheduled /\ ~isScheduled /\ ~isPublished,
                           emitChange(new, "unscheduled"))
              ELSE When(isPublished, emitChange(new, "published.edited"))
                   \o When(needsReschedule, emitChange(new, "rescheduled")))
             \o emitChange(new, "edited")

\* onUpdated, emitting edited after a change of type as well
onUpdated_EditedAlways(m) ==
    LET statusChanging == m.attrs.status # m.prev.status
        isPublished == m.attrs.status = "published"
        isScheduled == m.attrs.status = "scheduled"
        wasPublished == m.prev.status = "published"
        wasScheduled == m.prev.status = "scheduled"
        resourceTypeChanging == m.attrs.type # m.prev.type
        publishedAtHasChanged == hasDateChanged(m, "published_at")
        needsReschedule == publishedAtHasChanged /\ isScheduled
        old == m.prev.type
        new == m.attrs.type
        When(c, e) == IF c THEN e ELSE <<>>
    IN  IF resourceTypeChanging
        THEN When(wasPublished, emitChange(old, "unpublished"))
             \o When(wasScheduled, emitChange(old, "unscheduled"))
             \o emitChange(old, "deleted")
             \o emitChange(new, "added")
             \o When(isPublished, emitChange(new, "published"))
             \o When(isScheduled, emitChange(new, "scheduled"))
             \o emitChange(new, "edited")
        ELSE (IF statusChanging
              THEN When(wasPublished, emitChange(new, "unpublished"))
                   \o When(isPublished, emitChange(new, "published"))
                   \o When(isScheduled, emitChange(new, "scheduled"))
                   \o When(wasScheduled /\ ~isScheduled /\ ~isPublished,
                           emitChange(new, "unscheduled"))
              ELSE When(isPublished, emitChange(new, "published.edited"))
                   \o When(needsReschedule, emitChange(new, "rescheduled")))
             \o emitChange(new, "edited")

\* onUpdated, announcing the item under its new type before deleting the old
onUpdated_AddedBeforeDeleted(m) ==
    LET statusChanging == m.attrs.status # m.prev.status
        isPublished == m.attrs.status = "published"
        isScheduled == m.attrs.status = "scheduled"
        wasPublished == m.prev.status = "published"
        wasScheduled == m.prev.status = "scheduled"
        resourceTypeChanging == m.attrs.type # m.prev.type
        publishedAtHasChanged == hasDateChanged(m, "published_at")
        needsReschedule == publishedAtHasChanged /\ isScheduled
        old == m.prev.type
        new == m.attrs.type
        When(c, e) == IF c THEN e ELSE <<>>
    IN  IF resourceTypeChanging
        THEN When(wasPublished, emitChange(old, "unpublished"))
             \o When(wasScheduled, emitChange(old, "unscheduled"))
             \o emitChange(new, "added")
             \o emitChange(old, "deleted")
             \o When(isPublished, emitChange(new, "published"))
             \o When(isScheduled, emitChange(new, "scheduled"))
        ELSE (IF statusChanging
              THEN When(wasPublished, emitChange(new, "unpublished"))
                   \o When(isPublished, emitChange(new, "published"))
                   \o When(isScheduled, emitChange(new, "scheduled"))
                   \o When(wasScheduled /\ ~isScheduled /\ ~isPublished,
                           emitChange(new, "unscheduled"))
              ELSE When(isPublished, emitChange(new, "published.edited"))
                   \o When(needsReschedule, emitChange(new, "rescheduled")))
             \o emitChange(new, "edited")

\* lines 253-323
onUpdated(m) ==
    LET statusChanging == m.attrs.status # m.prev.status
        isPublished == m.attrs.status = "published"
        isScheduled == m.attrs.status = "scheduled"
        wasPublished == m.prev.status = "published"
        wasScheduled == m.prev.status = "scheduled"
        resourceTypeChanging == m.attrs.type # m.prev.type
        publishedAtHasChanged == hasDateChanged(m, "published_at")
        needsReschedule == publishedAtHasChanged /\ isScheduled
        old == m.prev.type
        new == m.attrs.type
        When(c, e) == IF c THEN e ELSE <<>>
    IN  IF resourceTypeChanging
        THEN When(wasPublished, emitChange(old, "unpublished"))
             \o When(wasScheduled, emitChange(old, "unscheduled"))
             \o emitChange(old, "deleted")
             \o emitChange(new, "added")
             \o When(isPublished, emitChange(new, "published"))
             \o When(isScheduled, emitChange(new, "scheduled"))
        ELSE (IF statusChanging
              THEN When(wasPublished, emitChange(new, "unpublished"))
                   \o When(isPublished, emitChange(new, "published"))
                   \o When(isScheduled, emitChange(new, "scheduled"))
                   \o When(wasScheduled /\ ~isScheduled /\ ~isPublished,
                           emitChange(new, "unscheduled"))
              ELSE When(isPublished, emitChange(new, "published.edited"))
                   \o When(needsReschedule, emitChange(new, "rescheduled")))
             \o emitChange(new, "edited")

\* ------------------------------------------------------------------ operations

Idle == [op |-> "none"]

Init ==
    /\ posts = <<>>
    /\ revisions = <<>>
    /\ emails = {}
    /\ now = Epoch
    /\ last = Idle
    /\ result = "none"
    /\ events = <<>>
    /\ publishers = <<>>
    /\ imported = {}
    /\ history = <<>>
    /\ txs = <<>>
    /\ sink = <<>>

\* the id the storage layer gives the next row
NextId == CHOOSE i \in Ids : i \notin DOMAIN posts /\ \A j \in 1..(i - 1) : j \in DOMAIN posts

\* the save of a forged model: onSaving, the write, then onSaved and onUpdated
save(id, m0, options, revs) ==
    LET err == onSavingError(m0, options, now)
        m == onSaving(m0, options, now, posts, id, id \in emails)
    IN  IF err # "none"
        THEN /\ result' = err
             /\ events' = <<>>
             /\ UNCHANGED <<posts, revisions>>
        ELSE /\ result' = "ok"
             /\ posts' = (id :> m.attrs) @@ posts
             /\ \E log \in updateRevisions(m, options, revs, now) :
                  revisions' = (id :> log) @@ revisions
             /\ events' = onSaved(m) \o (IF m.method = "update" THEN onUpdated(m) ELSE <<>>)

\* lines 1068-1094, with the save of the base model's add
add(data, options) ==
    /\ last = Idle
    /\ NextId \in Ids
    /\ last' = [op |-> "add", id |-> NextId, data |-> data, options |-> options,
                prev |-> NoAttrs, prevRevs |-> <<>>, at |-> now]
    /\ save(NextId, Forge("insert", NoAttrs, data), options, <<>>)
    /\ UNCHANGED <<emails, now, txs>>

\* lines 1023-1061, with the fetch and save of the base model's edit
edit(id, data, options) ==
    /\ last = Idle
    /\ id \in DOMAIN posts
    /\ last' = [op |-> "edit", id |-> id, data |-> data, options |-> options,
                prev |-> posts[id], prevRevs |-> revisions[id], at |-> now]
    /\ save(id, Forge("update", posts[id], data), options, revisions[id])
    /\ UNCHANGED <<emails, now, txs>>

\* the caller takes the result of the operation
Return ==
    /\ last # Idle
    /\ last' = Idle
    /\ result' = "none"
    /\ events' = <<>>
    /\ UNCHANGED <<posts, revisions, emails, now, txs, observers>>

\* time passes between operations
Tick(d, limit) ==
    /\ last = Idle
    /\ now + d <= Epoch + limit
    /\ now' = now + d
    /\ UNCHANGED <<posts, revisions, emails, last, result, events, txs, observers>>

\* ------------------------------------------------------------------ observers

\* the item is the only one: the specifications of one item's life add it once
OneItem == posts = <<>>

\* room for another item
Room == Cardinality(DOMAIN posts) < MaxPosts

\* publishers and imported follow the operation just done
Publishing ==
    /\ publishers' =
          IF /\ result' = "ok"
             /\ posts'[last'.id].status = "published"
             /\ last'.prev.status # "published"
          THEN (last'.id :> contextUser(last'.options)) @@ publishers
          ELSE publishers
    /\ imported' =
          IF result' = "ok" /\ last'.options.importing
          THEN imported \cup {last'.id} ELSE imported

\* history follows the operation just done
Recording ==
    history' = Append(history,
                      [op |-> last'.op, data |-> last'.data, options |-> last'.options,
                       at |-> last'.at, result |-> result', events |-> events',
                       post |-> IF last'.id \in DOMAIN posts' THEN posts'[last'.id] ELSE NoAttrs])

\* ------------------------------------------------------------------ options and payloads

Option(importing, migrating, internal, user) ==
    [importing |-> importing, migrating |-> migrating, internal |-> internal,
     user |-> user, send_email_when_published |-> FALSE, force_rerender |-> FALSE]

Users == {"u1", "u2"}

\* ------------------------------------------------------------------ status lifecycle

PublishDates ==
    {NullDate, InvalidDate, DateAt(0), DateAt(cannotScheduleAPostBeforeInMinutes + 1)}

StatusOptions ==
    {Option(i, g, n, "u1") : i \in BOOLEAN, g \in BOOLEAN, n \in BOOLEAN}

StatusData ==
    {[status |-> s] : s \in ALL_STATUSES}
    \cup {[status |-> s, published_at |-> t] : s \in ALL_STATUSES, t \in PublishDates}
    \cup {[published_at |-> t] : t \in PublishDates}
    \cup {[status |-> "scheduled", type |-> "page", published_at |-> t] : t \in PublishDates}

\* the payload that sends the stored title, slug, body and status back
Resubmit(p) ==
    [title |-> p.title, slug |-> p.slug, mobiledoc |-> p.mobiledoc, status |-> p.status]

Next ==
    \/ \E d \in StatusData, o \in StatusOptions :
          OneItem /\ add(d, o) /\ UNCHANGED observers
    \/ \E i \in DOMAIN posts, o \in StatusOptions :
          \E d \in StatusData \cup {Resubmit(posts[i])} :
             edit(i, d, o) /\ UNCHANGED observers
    \/ Return
    \/ Tick(MsPerMinute, MaxMinutes * MsPerMinute)

Spec == Init /\ [][Next]_vars

\* ------------------------------------------------------------------ what a save was asked to do

IsSave == last.op \in {"add", "edit"}

\* the attributes the last save started from and asked for
Asked == Forge(IF last.op = "add" THEN "insert" ELSE "update", last.prev, last.data)

LeadTime == cannotScheduleAPostBeforeInMinutes * MsPerMinute

IsInstant(t) == t >= 0

Untouched == posts = [i \in DOMAIN posts |-> IF i = last.id THEN last.prev ELSE posts[i]]
             /\ revisions[last.id] = last.prevRevs

\* ------------------------------------------------------------------ C1

\* C1: an edit of a published item that asks for status scheduled ends in a
\* ValidationError, whatever else the payload and the options hold, and the stored
\* item and its revisions are as before.
C1_PublishedToScheduledRejected ==
    (/\ last.op = "edit"
     /\ last.prev.status = "published"
     /\ "status" \in DOMAIN last.data
     /\ last.data.status = "scheduled")
    => (result = "ValidationError" /\ events = <<>> /\ Untouched)

C1_Witness ==
    /\ last.op = "edit"
    /\ last.prev.status = "published"
    /\ last.data = [status |-> "scheduled", type |-> "page",
                    published_at |-> DateAt(cannotScheduleAPostBeforeInMinutes + 1)]
    /\ last.options.importing
    /\ last.options.internal
    /\ result = "ValidationError"
    /\ posts[last.id] = last.prev

\* ------------------------------------------------------------------ C2

\* the case C2 is about: the save asks for scheduled with an instant before now + lead time
C2_Case ==
    /\ IsSave
    /\ Asked.attrs.status = "scheduled"
    /\ IsInstant(Asked.attrs.published_at)
    /\ Asked.attrs.published_at < last.at + LeadTime

\* C2 as stated: every save that results in scheduled with publishedAt < now + lead
\* time yields a ValidationError when importing is false, and succeeds when
\* importing is true.
C2_Original ==
    C2_Case => IF last.options.importing THEN result = "ok" ELSE result = "ValidationError"

\* C2 (amended): when moreover the previous status is not published and the save
\* changes publishedAt, the save yields a ValidationError if importing is false and
\* the context is not internal, and succeeds (the body being renderable) if
\* importing is true.
C2_LeadTimeEnforced ==
    (/\ C2_Case
     /\ Asked.prev.status # "published"
     /\ Asked.attrs.published_at # Asked.prev.published_at
     /\ BlankMobiledoc(Asked).attrs.mobiledoc \in Renderable)
    => /\ (~last.options.importing /\ ~last.options.internal) => result = "ValidationError"
       /\ last.options.importing =>
              /\ result = "ok"
              /\ posts[last.id].status = "scheduled"
              /\ posts[last.id].published_at = Asked.attrs.published_at

C2_Witness ==
    /\ last.op = "edit"
    /\ last.prev.status = "draft"
    /\ last.data = [status |-> "scheduled",
                    published_at |-> DateAt(cannotScheduleAPostBeforeInMinutes + 1)]
    /\ last.at = DateAt(cannotScheduleAPostBeforeInMinutes)
    /\ ~last.options.importing
    /\ ~last.options.internal
    /\ result = "ValidationError"

\* ------------------------------------------------------------------ C3

\* C3: every stored scheduled item has a publishedAt that is set and valid, and a
\* save that asks for scheduled with publishedAt absent or unparseable ends in a
\* ValidationError, whatever the options.
C3_ScheduledHasPublishedAt ==
    /\ \A i \in DOMAIN posts :
          posts[i].status = "scheduled" => IsInstant(posts[i].published_at)
    /\ (/\ IsSave
        /\ Asked.attrs.status = "scheduled"
        /\ Asked.attrs.published_at \in {NullDate, InvalidDate})
       => (result = "ValidationError" /\ (last.op = "edit" => Untouched))

C3_Witness ==
    /\ last.op = "edit"
    /\ last.prev.status = "draft"
    /\ last.data = [status |-> "scheduled", published_at |-> InvalidDate]
    /\ last.options.importing
    /\ result = "ValidationError"
    /\ posts[last.id] = last.prev

\* ------------------------------------------------------------------ publishing

PublishData ==
    {[status |-> st] : st \in ALL_STATUSES}
    \cup {[status |-> "published", published_at |-> NullDate],
          [status |-> "published", published_by |-> "u2"],
          [status |-> "scheduled", published_at |-> DateAt(cannotScheduleAPostBeforeInMinutes + 1)],
          [published_by |-> "u2"],
          [published_by |-> NullStr],
          [published_at |-> NullDate]}

PublishOptions ==
    {Option(i, FALSE, n, u) : i \in BOOLEAN, n \in BOOLEAN, u \in Users}

NextPublish ==
    \/ \E d \in PublishData, o \in PublishOptions :
          OneItem /\ add(d, o) /\ Publishing /\ UNCHANGED <<history, sink>>
    \/ \E i \in DOMAIN posts, d \in PublishData, o \in PublishOptions :
          edit(i, d, o) /\ Publishing /\ UNCHANGED <<history, sink>>
    \/ Return
    \/ Tick(MsPerMinute, MaxMinutes * MsPerMinute)

SpecPublish == Init /\ [][NextPublish]_vars

\* ------------------------------------------------------------------ C4

\* a successful save that asked for published without a publishedAt stored now
C4_DefaultedToNow ==
    (/\ IsSave
     /\ result = "ok"
     /\ Asked.attrs.status = "published"
     /\ Asked.attrs.published_at = NullDate)
    => posts[last.id].published_at = last.at

\* C4 as stated: every stored published item has publishedAt set (now, when the
\* save found none) and publishedBy equal to the actor that made it published.
C4_Original ==
    /\ \A i \in DOMAIN posts :
          posts[i].status = "published" =>
             /\ posts[i].published_at # NullDate
             /\ i \in DOMAIN publishers
             /\ posts[i].published_by = publishers[i]
    /\ C4_DefaultedToNow

\* C4 (amended): every stored published item has publishedAt set (now, when the
\* save found none); its publishedBy is the actor that made it published as long
\* as no importing save has written the item.
C4_PublishedHasDateAndActor ==
    /\ \A i \in DOMAIN posts :
          posts[i].status = "published" =>
             /\ posts[i].published_at # NullDate
             /\ i \notin imported =>
                   (i \in DOMAIN publishers /\ posts[i].published_by = publishers[i])
    /\ C4_DefaultedToNow

\* a published item edited by another actor, who sends a published_by of their own
C4_Witness ==
    /\ last.op = "edit"
    /\ result = "ok"
    /\ last.prev.status = "published"
    /\ posts[last.id].status = "published"
    /\ last.id \notin imported
    /\ last.data = [published_by |-> "u2"]
    /\ last.options.user = "u2"
    /\ posts[last.id].published_by = "u1"
    /\ publishers[last.id] = "u1"
    /\ posts[last.id].published_at = DateAt(0)
    /\ last.at = DateAt(1)

\* ------------------------------------------------------------------ revisions

Plain == Option(FALSE, FALSE, FALSE, "u1")
Importing == Option(TRUE, FALSE, FALSE, "u1")
Migrating == Option(FALSE, TRUE, FALSE, "u1")

BodyData == {[mobiledoc |-> "m1"], [mobiledoc |-> "m2"]}

NextRevisions ==
    \/ \E o \in {Plain, Migrating} :
          OneItem /\ add([mobiledoc |-> "m1"], o) /\ UNCHANGED observers
    \/ \E i \in DOMAIN posts :
          \E c \in (BodyData \X {Plain})
                   \cup {<<[mobiledoc |-> "m2"], Importing>>,
                         <<[mobiledoc |-> "bad"], Plain>>,
                         <<[title |-> untitled], Plain>>} :
             edit(i, c[1], c[2]) /\ UNCHANGED observers
    \/ Return
    \/ Tick(1, MaxMillis)

SpecRevisions == Init /\ [][NextRevisions]_vars

\* the last save changed the body and was neither importing nor migrating
BodyEdited ==
    /\ last.op = "edit"
    /\ result = "ok"
    /\ posts[last.id].mobiledoc # last.prev.mobiledoc
    /\ ~last.options.importing
    /\ ~last.options.migrating

\* seq without its j-th element
Without(seq, j) == SubSeq(seq, 1, j - 1) \o SubSeq(seq, j + 1, Len(seq))

\* ------------------------------------------------------------------ C5

C7_RevisionsSeeded ==
    (BodyEdited /\ last.prevRevs = <<>>)
    => LET log == revisions[last.id]
       IN  /\ Len(log) = 2
           /\ log[1].mobiledoc = last.prev.mobiledoc
           /\ log[2].mobiledoc = posts[last.id].mobiledoc
           /\ log[1].created_at_ts < log[2].created_at_ts

C7_Witness ==
    /\ BodyEdited
    /\ last.prevRevs = <<>>
    /\ last.prev.mobiledoc = "m1"
    /\ revisions[last.id] = <<[mobiledoc |-> "m1", created_at_ts |-> last.at - 1],
                              [mobiledoc |-> "m2", created_at_ts |-> last.at]>>

\* ------------------------------------------------------------------ C9

\* an edit that changes none of title, slug, body, status and type has succeeded
C9_Case ==
    /\ last.op = "edit"
    /\ result = "ok"
    /\ \A f \in {"title", "slug", "mobiledoc", "status", "type"} :
          Asked.attrs[f] = Asked.prev[f]

PublishedEdited ==
    IF last.prev.status = "published" THEN <<last.prev.type \o ".published.edited">> ELSE <<>>

\* C9 as stated: such an edit adds no revision and emits edited alone, after
\* published.edited when the item is published.
C9_Original ==
    C9_Case => /\ revisions[last.id] = last.prevRevs
               /\ events = PublishedEdited \o <<last.prev.type \o ".edited">>

\* C9 (amended): such an edit adds no revision and emits edited last, after
\* published.edited when the item is published and after rescheduled when the item
\* is scheduled and the edit changed its publishedAt; it emits nothing else, so
\* none of published, unpublished, scheduled, unscheduled, added, deleted.
C9_UnchangedEditEvents ==
    C9_Case =>
       /\ revisions[last.id] = last.prevRevs
       /\ events = PublishedEdited
                   \o (IF /\ last.prev.status = "scheduled"
                          /\ posts[last.id].published_at # last.prev.published_at
                       THEN <<last.prev.type \o ".rescheduled">> ELSE <<>>)
                   \o <<last.prev.type \o ".edited">>

\* a published item takes its own title, slug, body and status back
C9_Witness ==
    /\ last.op = "edit"
    /\ result = "ok"
    /\ last.prev.status = "published"
    /\ last.data = Resubmit(last.prev)
    /\ posts[last.id] = last.prev
    /\ revisions[last.id] = last.prevRevs
    /\ events = <<"post.published.edited", "post.edited">>

\* ------------------------------------------------------------------ slugs of several items

Hi == <<"H", "i">>

SlugAddData ==
    {[title |-> Hi], [slug |-> <<"h", "i">>], [title |-> <<"!">>],
     [title |-> Hi, status |-> "published"], [title |-> Hi, mobiledoc |-> "m1"]}

SlugEditData == {[title |-> <<"Y", "o">>], [title |-> Hi], [slug |-> <<"h", "i">>]}

NextSlug ==
    \/ \E d \in SlugAddData, o \in {Plain, Importing, Migrating} :
          Room /\ add(d, o) /\ UNCHANGED observers
    \/ \E i \in DOMAIN posts, d \in SlugEditData :
          edit(i, d, Plain) /\ UNCHANGED observers
    \/ Return

SpecSlug == Init /\ [][NextSlug]_vars

\* ------------------------------------------------------------------ C8

C8_Case == last.op = "add" /\ result = "ok"

\* the slug is not empty and no other item has it; the status is draft when the
\* payload has none
C8_SlugAndStatus ==
    /\ posts[last.id].slug # <<>>
    /\ \A j \in DOMAIN posts \ {last.id} : posts[j].slug # posts[last.id].slug
    /\ "status" \notin DOMAIN last.data => posts[last.id].status = "draft"

\* C8 as stated: an added item has a unique, non-empty slug, status draft when
\* none was supplied, and an empty revision log.
C8_Original ==
    C8_Case => C8_SlugAndStatus /\ revisions[last.id] = <<>>

\* C8 (amended): an added item has a unique, non-empty slug and status draft when
\* none was supplied; its revision log holds exactly one entry, the body it was
\* stored with at the time of the add, and is empty only when the add was an
\* import or a migration.
C8_AddedItem ==
    C8_Case =>
       /\ C8_SlugAndStatus
       /\ revisions[last.id] =
             IF last.options.importing \/ last.options.migrating THEN <<>>
             ELSE <<[mobiledoc |-> posts[last.id].mobiledoc, created_at_ts |-> last.at]>>

\* a second item of the same title is added with no status and no slug
C8_Witness ==
    /\ C8_Case
    /\ last.data = [title |-> Hi]
    /\ last.options = Plain
    /\ last.id = 2
    /\ posts[1].slug = <<"h", "i">>
    /\ posts[2].slug = <<"h", "i", "-", "2">>
    /\ posts[2].status = "draft"
    /\ Len(revisions[2]) = 1

\* ------------------------------------------------------------------ status lifecycle of one item, recorded

Other == Option(FALSE, FALSE, FALSE, "u2")

LifecycleAddData ==
    {[title |-> Hi], [title |-> Hi, status |-> "draft"],
     [title |-> Hi, published_at |-> DateAt(0)]}

LifecycleEditData ==
    {[status |-> "published"], [title |-> <<"Y", "o">>], [status |-> "draft"],
     [status |-> "scheduled", published_at |-> DateAt(cannotScheduleAPostBeforeInMinutes + 1)]}

NextLifecycle ==
    \/ \E d \in LifecycleAddData :
          /\ OneItem
          /\ Len(history) < MaxHistory
          /\ add(d, Plain)
          /\ Recording
          /\ UNCHANGED <<publishers, imported, sink>>
    \/ \E i \in DOMAIN posts, d \in LifecycleEditData, o \in {Plain, Other} :
          /\ Len(history) < MaxHistory
          /\ edit(i, d, o)
          /\ Recording
          /\ UNCHANGED <<publishers, imported, sink>>
    \/ Return
    \/ Tick(MsPerMinute, MsPerMinute)

SpecLifecycle == Init /\ [][NextLifecycle]_vars

\* ------------------------------------------------------------------ C10

\* add(draft) ; edit(status=published, no prior publishedAt) ; edit(title only) ;
\* edit(status=draft), each of them successful
C10_Scenario ==
    /\ Len(history) = 4
    /\ \A k \in 1..4 : history[k].result = "ok"
    /\ history[1].op = "add"
    /\ history[1].post.status = "draft"
    /\ history[1].post.published_at = NullDate
    /\ history[2].op = "edit" /\ history[2].data = [status |-> "published"]
    /\ history[3].op = "edit" /\ DOMAIN history[3].data = {"title"}
    /\ history[4].op = "edit" /\ history[4].data = [status |-> "draft"]

\* C10: the four steps emit [added] ; [published, edited] ; [published.edited,
\* edited] ; [unpublished, edited]; after the second step publishedAt (the time of
\* that step) and publishedBy (its actor) are set, and the third step leaves the
\* slug unchanged.
C10_LifecycleEvents ==
    C10_Scenario =>
       /\ history[1].events = <<"post.added">>
       /\ history[2].events = <<"post.published", "post.edited">>
       /\ history[3].events = <<"post.published.edited", "post.edited">>
       /\ history[4].events = <<"post.unpublished", "post.edited">>
       /\ history[2].post.published_at = history[2].at
       /\ history[2].post.published_by = contextUser(history[2].options)
       /\ history[3].post.slug = history[2].post.slug

\* the scenario has run, the title of the third step a new one
C10_Witness ==
    /\ C10_Scenario
    /\ history[3].post.title # history[2].post.title
    /\ history[2].post.published_by \in Users
    /\ IsInstant(history[2].post.published_at)
    /\ history[4].post.status = "draft"
    /\ last.op = "edit"

\* ------------------------------------------------------------------ transactions

\* onDestroyed, taking every item that is not a draft for a published one
onDestroyed_UnpublishesScheduled(prev) ==
    (IF prev.status # "draft" THEN emitChange(prev.type, "unpublished") ELSE <<>>)
    \o emitChange(prev.type, "deleted")

\* lines 325-333
onDestroyed(prev) ==
    (IF prev.status = "published" THEN emitChange(prev.type, "unpublished") ELSE <<>>)
    \o emitChange(prev.type, "deleted")

\* transaction, using a transaction only when the caller handed one in
transaction_AsGiven(given) == given

\* lines 1053-1058, 1085-1091, 1103-1108: whether options.transacting is set when
\* editPost, addPost or destroyPost runs, given whether the caller handed one in
transaction(given) == IF ~given THEN TRUE ELSE given

\* Conflict, with no unique index on slug
Conflict_NoIndex(row, id, db) == FALSE

\* the unique index on slug: another row holds the slug of the row to write
Conflict(row, id, db) == \E j \in DOMAIN db \ {id} : db[j].slug = row.slug

\* the row of a destroyed item
Deleted == [status |-> "deleted"]

TxIds == 1..MaxConcurrent

\* the item has a row locked by an open transaction (forUpdate, line 1027) or an
\* id reserved by one
Locked(id) == \E t \in DOMAIN txs : txs[t].id = id

\* the id of the row addPost inserts
FreshId ==
    CHOOSE i \in Ids : /\ ~(i \in DOMAIN posts \/ Locked(i))
                       /\ \A j \in 1..(i - 1) : j \in DOMAIN posts \/ Locked(j)

HasRoom == Cardinality(DOMAIN posts \cup {txs[t].id : t \in DOMAIN txs}) < MaxPosts

\* the tables with the row and the revisions of item id written
write(id, row, log) ==
    IF row = Deleted
    THEN /\ posts' = [i \in DOMAIN posts \ {id} |-> posts[i]]
         /\ revisions' = [i \in DOMAIN revisions \ {id} |-> revisions[i]]
    ELSE /\ posts' = (id :> row) @@ posts
         /\ revisions' = (id :> log) @@ revisions

\* the hooks of an operation have run: with a transaction its writes and events
\* wait for the commit, without one the writes are made and the events delivered
open(op, id, data, options, given, err, row, logs, emitted) ==
    LET t == CHOOSE k \in TxIds : k \notin DOMAIN txs
        prev == IF id \in DOMAIN posts THEN posts[id] ELSE NoAttrs
        prevRevs == IF id \in DOMAIN revisions THEN revisions[id] ELSE <<>>
        call == [op |-> op, id |-> id, data |-> data, options |-> options,
                 given |-> given, prev |-> prev, prevRevs |-> prevRevs, at |-> now]
    IN  /\ last = Idle
        /\ DOMAIN txs # TxIds
        /\ last' = call @@ [step |-> "hooks"]
        /\ IF err # "none"
           THEN /\ result' = err
                /\ events' = <<>>
                /\ UNCHANGED <<posts, revisions, txs>>
           ELSE \E log \in logs :
                   /\ result' = "pending"
                   /\ txs' = (t :> (call @@ [row |-> row, log |-> log,
                                             transacting |-> transaction(given),
                                             queue |-> IF transaction(given)
                                                       THEN emitted ELSE <<>>])) @@ txs
                   /\ IF transaction(given)
                      THEN events' = <<>> /\ UNCHANGED <<posts, revisions>>
                      ELSE events' = emitted /\ write(id, row, log)
        /\ UNCHANGED <<emails, now, observers>>

\* lines 1071-1083 up to the save of the base model's add
addPost(data, options, given) ==
    LET id == FreshId
        m0 == Forge("insert", NoAttrs, data)
        m == onSaving(m0, options, now, posts, id, FALSE)
    IN  /\ HasRoom
        /\ open("add", id, data, options, given, onSavingError(m0, options, now),
                m.attrs, updateRevisions(m, options, <<>>, now), onSaved(m))

\* lines 1026-1029 up to the save of the base model's edit; forUpdate locks the row
editPost(id, data, options, given) ==
    LET m0 == Forge("update", posts[id], data)
        m == onSaving(m0, options, now, posts, id, id \in emails)
    IN  /\ id \in DOMAIN posts
        /\ ~Locked(id)
        /\ open("edit", id, data, options, given, onSavingError(m0, options, now),
                m.attrs, updateRevisions(m, options, revisions[id], now),
                onSaved(m) \o onUpdated(m))

\* lines 1099-1101 up to the delete of the base model's destroy
destroyPost(id, options, given) ==
    /\ id \in DOMAIN posts
    /\ ~Locked(id)
    /\ open("destroy", id, <<>>, options, given, "none", Deleted, {<<>>},
            onDestroyed(posts[id]))

\* the transaction commits: its writes are made under the unique index on slug
\* and its queued events delivered
commit(t) ==
    /\ last = Idle
    /\ t \in DOMAIN txs
    /\ LET tx == txs[t]
       IN  /\ last' = [f \in {"op", "id", "data", "options", "given", "prev", "prevRevs", "at"}
                         |-> tx[f]] @@ [step |-> "commit"]
           /\ txs' = [k \in DOMAIN txs \ {t} |-> txs[k]]
           /\ IF ~tx.transacting
              THEN result' = "ok" /\ events' = <<>> /\ UNCHANGED <<posts, revisions>>
              ELSE IF tx.row # Deleted /\ Conflict(tx.row, tx.id, posts)
              THEN result' = "ConflictError" /\ events' = <<>> /\ UNCHANGED <<posts, revisions>>
              ELSE result' = "ok" /\ events' = tx.queue /\ write(tx.id, tx.row, tx.log)
    /\ UNCHANGED <<emails, now>>

\* a step after the hooks fails (the re-fetch of lines 1031 and 1078, a relation
\* write): the transaction is rolled back and its queued events dropped
rollback(t) ==
    /\ last = Idle
    /\ t \in DOMAIN txs
    /\ last' = [f \in {"op", "id", "data", "options", "given", "prev", "prevRevs", "at"}
                  |-> txs[t][f]] @@ [step |-> "rollback"]
    /\ txs' = [k \in DOMAIN txs \ {t} |-> txs[k]]
    /\ result' = "InternalServerError"
    /\ events' = <<>>
    /\ UNCHANGED <<posts, revisions, emails, now, observers>>

\* the operations on one item, one transaction at a time
TxAddData == {[title |-> Hi], [title |-> Hi, status |-> "published"]}

TxEditData ==
    {[status |-> "published"], [status |-> "draft"], [mobiledoc |-> "m1"],
     [mobiledoc |-> "bad"], [status |-> "scheduled"], [type |-> "page"]}

NextTransactions ==
    \/ \E d \in TxAddData, g \in BOOLEAN : OneItem /\ txs = <<>> /\ addPost(d, Plain, g)
    \/ \E i \in DOMAIN posts, d \in TxEditData, g \in BOOLEAN : editPost(i, d, Plain, g)
    \/ \E i \in DOMAIN posts, g \in BOOLEAN : destroyPost(i, Plain, g)
    \/ \E t \in DOMAIN txs : commit(t) /\ UNCHANGED observers
    \/ \E t \in DOMAIN txs : rollback(t)
    \/ Return

SpecTransactions == Init /\ [][NextTransactions]_vars

\* concurrent adds and edits of several items
ConcurrentEditData == {[title |-> <<"Y", "o">>], [slug |-> <<"h", "i">>]}

NextConcurrent ==
    \/ \E d \in {[title |-> Hi], [slug |-> <<"h", "i">>]} : addPost(d, Plain, FALSE)
    \/ \E i \in DOMAIN posts, d \in ConcurrentEditData : editPost(i, d, Plain, FALSE)
    \/ \E t \in DOMAIN txs : commit(t) /\ UNCHANGED observers
    \/ Return

SpecConcurrent == Init /\ [][NextConcurrent]_vars

\* ------------------------------------------------------------------ C11

\* C11: events reach the sink only in the step that commits the transaction of the
\* operation that emitted them; the hooks deliver none while the transaction is
\* open, and a transaction that is rolled back or fails at its commit delivers none.
C11_EventsAfterCommit ==
    /\ events # <<>> => (last.step = "commit" /\ result = "ok")
    /\ (last # Idle /\ last.step = "commit" /\ result = "ok" /\ last.op = "destroy")
       => events = onDestroyed(last.prev)
    /\ (last # Idle /\ last.step = "commit" /\ result = "ok" /\ last.op = "add")
       => (Len(events) >= 1 /\ events[1] = posts[last.id].type \o ".added")

\* the hooks of an edit to published have run and queued its events, then the
\* transaction was rolled back: nothing is delivered, and the item is a draft
C11_Witness ==
    /\ last # Idle
    /\ last.step = "rollback"
    /\ last.op = "edit"
    /\ ~last.given
    /\ last.data = [status |-> "published"]
    /\ last.prev.status = "draft"
    /\ events = <<>>
    /\ posts[last.id].status = "draft"

\* ------------------------------------------------------------------ C12

destroy(id, options) ==
    /\ last = Idle
    /\ id \in DOMAIN posts
    /\ last' = [op |-> "destroy", id |-> id, data |-> <<>>, options |-> options,
                prev |-> posts[id], prevRevs |-> revisions[id], at |-> now]
    /\ result' = "ok"
    /\ events' = onDestroyed(posts[id])
    /\ write(id, Deleted, <<>>)
    /\ UNCHANGED <<emails, now, txs>>

HelloWorld == <<"H", "e", "l", "l", "o", " ", "W", "o", "r", "l", "d">>

hello_world == <<"h", "e", "l", "l", "o", "-", "w", "o", "r", "l", "d">>

TitledData ==
    {[title |-> HelloWorld], [title |-> Hi], [slug |-> hello_world \o <<"-", "2">>]}

NextTitled ==
    \/ \E d \in TitledData :
          /\ Cardinality(DOMAIN posts) < MaxTitled
          /\ add(d, Plain)
          /\ UNCHANGED observers
    \/ \E i \in DOMAIN posts : destroy(i, Plain) /\ UNCHANGED observers
    \/ Return

SpecTitled == Init /\ [][NextTitled]_vars

\* ------------------------------------------------------------------ C14

\* the n-th candidate for a slug: the base, then the base with -2, -3, ...
Candidate(base, n) == IF n = 1 THEN base ELSE base \o <<"-">> \o Digits(n)

\* an item was added with a title and no slug
C14_Case ==
    /\ last.op = "add"
    /\ result = "ok"
    /\ "title" \in DOMAIN last.data
    /\ "slug" \notin DOMAIN last.data

\* C14: an item added with a title and no slug has the first of title-slug,
\* title-slug-2, title-slug-3, ... that no other item holds, title-slug being the
\* title in lower case with hyphens for spaces: hello-world for "Hello World".
C14_SlugFromTitle ==
    C14_Case =>
       LET taken == {posts[j].slug : j \in DOMAIN posts \ {last.id}}
           base == IF last.data.title = HelloWorld THEN hello_world ELSE <<"h", "i">>
           n == CHOOSE k \in 1..(MaxTitled + 2) :
                   /\ Candidate(base, k) \notin taken
                   /\ \A l \in 1..(k - 1) : Candidate(base, l) \in taken
       IN  posts[last.id].slug = Candidate(base, n)

\* the third item titled "Hello World" gets hello-world-3
C14_Witness ==
    /\ C14_Case
    /\ last.data = [title |-> HelloWorld]
    /\ DOMAIN posts = {1, 2, 3}
    /\ posts[1].slug = hello_world
    /\ posts[2].slug = hello_world \o <<"-", "2">>
    /\ posts[2].title = HelloWorld
    /\ posts[3].slug = hello_world \o <<"-", "3">>
    /\ last.id = 3

\* ------------------------------------------------------------------ permissible

\* a JavaScript value that is truthy: a key that is there, not null, not empty
Truthy(attrs, attr) == attr \in DOMAIN attrs /\ attrs[attr] \notin {NullStr, ""}

\* lines 1124-1126
isChanging(unsafeAttrs, postModel, attr) ==
    Truthy(unsafeAttrs, attr) /\ unsafeAttrs[attr] # postModel[attr]

\* lines 1128-1130; the name is the code's: the requested status is not draft
isPublished(unsafeAttrs) == Truthy(unsafeAttrs, "status") /\ unsafeAttrs.status # "draft"

\* lines 1132-1134
isDraft(postModel) == postModel.status = "draft"

\* lines 1136-1139: _.some(loadedPermissions.user.roles, {name: role})
hasRole(loadedPermissions, role) ==
    loadedPermissions.hasUser /\ role \in loadedPermissions.userRoles

\* line 1140
isIntegration(loadedPermissions) ==
    loadedPermissions.hasApiKey /\ "Admin Integration" \in loadedPermissions.apiKeyRoles

\* lines 1146-1157: hasUserPermission once the rules of the roles have been applied
userPermission(postModel, action, unsafeAttrs, loadedPermissions, hasUserPermission) ==
    LET isContributor == hasRole(loadedPermissions, "Contributor")
        isOwner == hasRole(loadedPermissions, "Owner")
        isAdmin == hasRole(loadedPermissions, "Administrator")
        isEditor == hasRole(loadedPermissions, "Editor")
    IN  IF isContributor /\ action = "edit"
        THEN ~isChanging(unsafeAttrs, postModel, "status") /\ isDraft(postModel)
        ELSE IF isContributor /\ action = "add"
        THEN ~isPublished(unsafeAttrs)
        ELSE IF isContributor /\ action = "destroy"
        THEN isDraft(postModel)
        ELSE IF ~(isOwner \/ isAdmin \/ isEditor \/ isIntegration(loadedPermissions))
        THEN ~isChanging(unsafeAttrs, postModel, "visibility")
        ELSE hasUserPermission

\* permissible, letting a Contributor edit a draft whatever the requested status
permissible_ContributorAnyStatus(postModel, action, context, unsafeAttrs, loadedPermissions, hasUserPermission, hasApiKeyPermission) ==
    LET given == userPermission(postModel, action, unsafeAttrs, loadedPermissions,
                                hasUserPermission)
        allowed == IF hasRole(loadedPermissions, "Contributor") /\ action = "edit"
                   THEN isDraft(postModel) ELSE given
    IN  IF allowed /\ hasApiKeyPermission
        THEN [resolved |-> TRUE,
              excludedAttrs |-> IF hasRole(loadedPermissions, "Contributor")
                                THEN <<"tags">> ELSE <<>>]
        ELSE [resolved |-> FALSE, error |-> "NoPermissionError"]

\* permissible, granting when either permission holds
permissible_EitherPermission(postModel, action, context, unsafeAttrs, loadedPermissions, hasUserPermission, hasApiKeyPermission) ==
    IF \/ userPermission(postModel, action, unsafeAttrs, loadedPermissions, hasUserPermission)
       \/ hasApiKeyPermission
    THEN [resolved |-> TRUE,
          excludedAttrs |-> IF hasRole(loadedPermissions, "Contributor")
                            THEN <<"tags">> ELSE <<>>]
    ELSE [resolved |-> FALSE, error |-> "NoPermissionError"]

\* permissible, excluding no attribute for any role
permissible_NoExclusions(postModel, action, context, unsafeAttrs, loadedPermissions, hasUserPermission, hasApiKeyPermission) ==
    IF /\ userPermission(postModel, action, unsafeAttrs, loadedPermissions, hasUserPermission)
       /\ hasApiKeyPermission
    THEN [resolved |-> TRUE, excludedAttrs |-> <<>>]
    ELSE [resolved |-> FALSE, error |-> "NoPermissionError"]

\* lines 1114-1176: the promise permissible returns
permissible(postModel, action, context, unsafeAttrs, loadedPermissions, hasUserPermission, hasApiKeyPermission) ==
    LET excludedAttrs == IF hasRole(loadedPermissions, "Contributor")
                         THEN <<"tags">> ELSE <<>>
    IN  IF /\ userPermission(postModel, action, unsafeAttrs, loadedPermissions,
                             hasUserPermission)
           /\ hasApiKeyPermission
        THEN [resolved |-> TRUE, excludedAttrs |-> excludedAttrs]
        ELSE [resolved |-> FALSE, error |-> "NoPermissionError"]

Actions == {"add", "edit", "destroy"}

\* loadedPermissions: no user, or a user with roles; no api key, or one with roles
LoadedPermissions ==
    {[hasUser |-> u # {}, userRoles |-> u, hasApiKey |-> k # {}, apiKeyRoles |-> k] :
        u \in {{}, {"Contributor"}, {"Author"}, {"Editor"}, {"Administrator"}, {"Owner"},
               {"Contributor", "Editor"}},
        k \in {{}, {"Admin Integration"}, {"Other Integration"}}}

PostModels ==
    {[status |-> st, visibility |-> v] : st \in ALL_STATUSES, v \in {"public", "members"}}

UnsafeAttrs ==
    {<<>>}
    \cup {[status |-> st] : st \in ALL_STATUSES \cup {NullStr}}
    \cup {[visibility |-> v] : v \in {"public", "members"}}
    \cup {[status |-> st, visibility |-> v] : st \in ALL_STATUSES, v \in {"public", "members"}}

\* the permission gate is asked about an action
Permit(postModel, action, unsafeAttrs, loadedPermissions, hasUserPermission, hasApiKeyPermission) ==
    LET returned == permissible(postModel, action, <<>>, unsafeAttrs, loadedPermissions,
                                hasUserPermission, hasApiKeyPermission)
    IN  /\ last = Idle
        /\ last' = [op |-> "permissible", action |-> action, postModel |-> postModel,
                    unsafeAttrs |-> unsafeAttrs, loadedPermissions |-> loadedPermissions,
                    hasUserPermission |-> hasUserPermission,
                    hasApiKeyPermission |-> hasApiKeyPermission, returned |-> returned]
        /\ result' = IF returned.resolved THEN "ok" ELSE returned.error
        /\ events' = <<>>
        /\ UNCHANGED <<posts, revisions, emails, now, txs, observers>>

NextPermissions ==
    \/ \E postModel \in PostModels, action \in Actions, unsafeAttrs \in UnsafeAttrs,
          loadedPermissions \in LoadedPermissions,
          hasUserPermission \in BOOLEAN, hasApiKeyPermission \in BOOLEAN :
             Permit(postModel, action, unsafeAttrs, loadedPermissions,
                    hasUserPermission, hasApiKeyPermission)
    \/ Return

SpecPermissions == Init /\ [][NextPermissions]_vars

\* ------------------------------------------------------------------ C15

Asks == last.op = "permissible"

\* the status the request asks for: "null" when it asks for none
Requested(attr) == IF attr \in DOMAIN last.unsafeAttrs THEN last.unsafeAttrs[attr] ELSE NullStr

VisibilityDiffers ==
    Requested("visibility") # NullStr /\ Requested("visibility") # last.postModel.visibility

Privileged ==
    \/ /\ last.loadedPermissions.hasUser
       /\ last.loadedPermissions.userRoles \cap {"Owner", "Administrator", "Editor"} # {}
    \/ /\ last.loadedPermissions.hasApiKey
       /\ "Admin Integration" \in last.loadedPermissions.apiKeyRoles

\* C16: an add or edit request whose visibility differs from the item's is granted
\* only to an owner, administrator, editor or admin integration; for every other
\* actor, Contributors included, it is rejected.
C16_VisibilityNeedsPrivilege ==
    (Asks /\ last.action \in {"add", "edit"} /\ VisibilityDiffers /\ result = "ok")
    => Privileged

\* ------------------------------------------------------------------ C17

EditKeepsType ==
    /\ last.op = "edit"
    /\ result = "ok"
    /\ posts[last.id].type = last.prev.type

\* the edit emitted the event of that name for the item
Emitted(event) == \E k \in 1..Len(events) : events[k] = last.prev.type \o "." \o event

\* the events of the edit among the names given, in the order emitted
Among(names) ==
    SelectSeq(events, LAMBDA e : e \in {last.prev.type \o "." \o n : n \in names})

\* C18: a successful edit that changes the status and not the type emits at most
\* one of unpublished, published, scheduled, the one the pair of old and new
\* status gives: published or scheduled for that new status, unpublished for
\* published to draft, none for scheduled to draft.
C18_OneStatusEvent ==
    (EditKeepsType /\ posts[last.id].status # last.prev.status)
    => LET old == last.prev.status
           new == posts[last.id].status
       IN  Among({"unpublished", "published", "scheduled"}) =
              IF new \in {"published", "scheduled"} THEN <<last.prev.type \o "." \o new>>
              ELSE IF old = "published" THEN <<last.prev.type \o ".unpublished">>
              ELSE <<>>

\* a published item goes back to draft
C18_Witness ==
    /\ EditKeepsType
    /\ last.prev.status = "published"
    /\ posts[last.id].status = "draft"
    /\ events = <<"post.unpublished", "post.edited">>

\* ------------------------------------------------------------------ C19

\* C19: a successful edit that does not change the type emits unscheduled exactly
\* when the old status was scheduled and the new one is neither scheduled nor
\* published; scheduled to published emits published and no unscheduled.
C19_UnscheduledIff ==
    EditKeepsType =>
       /\ Emitted("unscheduled") <=>
             /\ last.prev.status = "scheduled"
             /\ posts[last.id].status \notin {"scheduled", "published"}
       /\ (last.prev.status = "scheduled" /\ posts[last.id].status = "published")
          => (Emitted("published") /\ ~Emitted("unscheduled"))

\* a scheduled item is published by an edit
C19_Witness ==
    /\ EditKeepsType
    /\ last.prev.status = "scheduled"
    /\ posts[last.id].status = "published"
    /\ events = <<"post.published", "post.edited">>

\* ------------------------------------------------------------------ C20

\* C20: a successful edit that changes neither status nor type emits
\* published.edited exactly when the item is published, and rescheduled exactly
\* when the item is scheduled and its publishedAt changed; it emits neither
\* scheduled nor unscheduled.
C20_UnchangedStatusEvents ==
    (EditKeepsType /\ posts[last.id].status = last.prev.status)
    => /\ Emitted("published.edited") <=> posts[last.id].status = "published"
       /\ Emitted("rescheduled") <=>
             /\ posts[last.id].status = "scheduled"
             /\ posts[last.id].published_at # last.prev.published_at
       /\ ~Emitted("scheduled")
       /\ ~Emitted("unscheduled")

\* a scheduled item is given another publishedAt
C20_Witness ==
    /\ EditKeepsType
    /\ last.prev.status = "scheduled"
    /\ posts[last.id].status = "scheduled"
    /\ posts[last.id].published_at # last.prev.published_at
    /\ ~last.options.importing
    /\ events = <<"post.rescheduled", "post.edited">>

\* ------------------------------------------------------------------ type changes

Later == DateAt(cannotScheduleAPostBeforeInMinutes + 1)

TypeAddData ==
    {[status |-> "draft"], [status |-> "published"], [type |-> "page"],
     [status |-> "scheduled", published_at |-> Later]}

TypeEditData ==
    {[type |-> "page"], [type |-> "post"], [status |-> "draft"], [status |-> "published"],
     [type |-> "page", status |-> "published"], [type |-> "post", status |-> "draft"],
     [type |-> "page", status |-> "scheduled", published_at |-> Later],
     [status |-> "scheduled", published_at |-> Later]}

NextTypes ==
    \/ \E d \in TypeAddData :
          OneItem /\ add(d, Plain) /\ UNCHANGED observers
    \/ \E i \in DOMAIN posts, d \in TypeEditData, o \in {Plain, Importing} :
          edit(i, d, o) /\ UNCHANGED observers
    \/ \E i \in DOMAIN posts :
          destroy(i, Plain) /\ UNCHANGED observers
    \/ Return

SpecTypes == Init /\ [][NextTypes]_vars

\* ------------------------------------------------------------------ C21

\* a successful edit that changed the type
EditChangesType ==
    /\ last.op = "edit"
    /\ result = "ok"
    /\ posts[last.id].type # last.prev.type

\* how many of the events carry the name given
Count(name) == Cardinality({k \in 1..Len(events) : events[k] = name})

\* C21: a successful edit that keeps the type emits exactly one edited event, and
\* it is the last event of the edit; an edit that changes the type emits no
\* edited event, under the old type or the new.
C21_EditedLast ==
    /\ EditKeepsType
       => /\ events # <<>>
          /\ events[Len(events)] = last.prev.type \o ".edited"
          /\ Count(last.prev.type \o ".edited") = 1
    /\ EditChangesType
       => /\ Count(last.prev.type \o ".edited") = 0
          /\ Count(posts[last.id].type \o ".edited") = 0

\* a draft is published by an edit: edited comes after published
C21_Witness ==
    /\ EditKeepsType
    /\ last.prev.status = "draft"
    /\ posts[last.id].status = "published"
    /\ Len(events) = 2
    /\ events[2] = "post.edited"

\* ------------------------------------------------------------------ C22

\* the event, if the condition holds
Only(c, e) == IF c THEN <<e>> ELSE <<>>

\* C22: a successful edit that changes the type emits, in this order: unpublished
\* if the item was published and unscheduled if it was scheduled, both under the
\* old type; deleted under the old type; added under the new type; published or
\* scheduled under the new type if that is the new status; and nothing else.
C22_TypeChangeEvents ==
    EditChangesType
    => LET old == last.prev.type
           new == posts[last.id].type
       IN  events = Only(last.prev.status = "published", old \o ".unpublished")
                    \o Only(last.prev.status = "scheduled", old \o ".unscheduled")
                    \o <<old \o ".deleted", new \o ".added">>
                    \o Only(posts[last.id].status = "published", new \o ".published")
                    \o Only(posts[last.id].status = "scheduled", new \o ".scheduled")

\* a published post becomes a published page
C22_Witness ==
    /\ EditChangesType
    /\ events = <<"post.unpublished", "post.deleted", "page.added", "page.published">>

\* ------------------------------------------------------------------ C23

\* C23: a successful add emits added first, then published or scheduled if that
\* is the item's status, and nothing else; an edit that keeps the type emits no
\* added event.
C23_AddedOnInsertOnly ==
    /\ (last.op = "add" /\ result = "ok")
       => LET type == posts[last.id].type
              status == posts[last.id].status
          IN  events = <<type \o ".added">>
                       \o Only(status \in {"published", "scheduled"}, type \o "." \o status)
    /\ EditKeepsType => Count(last.prev.type \o ".added") = 0

\* an item is added as scheduled
C23_Witness ==
    /\ last.op = "add"
    /\ result = "ok"
    /\ posts[last.id].status = "scheduled"
    /\ events = <<"post.added", "post.scheduled">>

\* ------------------------------------------------------------------ C24

\* C24: a destroy emits unpublished first exactly when the item was published, and
\* then deleted, which is its last event; both carry the type the item had.
C24_DestroyEvents ==
    (last.op = "destroy" /\ result = "ok")
    => /\ events = Only(last.prev.status = "published", last.prev.type \o ".unpublished")
                   \o <<last.prev.type \o ".deleted">>
       /\ last.id \notin DOMAIN posts

\* a published page is destroyed
C24_Witness ==
    /\ last.op = "destroy"
    /\ result = "ok"
    /\ last.prev.type = "page"
    /\ events = <<"page.unpublished", "page.deleted">>

\* ------------------------------------------------------------------ the event sink

MaxSink == 5

\* the base model's emitChange queues the events of a transaction and, when the
\* transaction has committed, emits the queue in one loop: the sink receives
\* the batch whole, after what it had
emit_Overtaking(received, batch) ==
    IF Len(received) < 2 \/ batch = <<>> THEN received \o batch
    ELSE SubSeq(received, 1, Len(received) - 1) \o <<Head(batch)>>
         \o <<received[Len(received)]>> \o Tail(batch)

emit(received, batch) == received \o batch

\* the mutations the sink has heard of
Mutations(received) == {received[k].mutation : k \in DOMAIN received}

\* sink follows the commit just done
Sinking ==
    sink' =
       IF last'.step = "commit" /\ result' = "ok"
       THEN emit(sink, [k \in 1..Len(events') |->
                          [mutation |-> Cardinality(Mutations(sink)) + 1,
                           id |-> last'.id, event |-> events'[k]]])
       ELSE sink

SinkEditData == {[status |-> "published"], [status |-> "draft"]}

NextSink ==
    \/ /\ HasRoom
       /\ Len(sink) < MaxSink
       /\ addPost([title |-> Hi], Plain, FALSE)
    \/ \E i \in DOMAIN posts, d \in SinkEditData :
          Len(sink) < MaxSink /\ editPost(i, d, Plain, FALSE)
    \/ \E t \in DOMAIN txs :
          commit(t) /\ Sinking /\ UNCHANGED <<publishers, imported, history>>
    \/ Return

SpecSink == Init /\ [][NextSink]_vars

\* ------------------------------------------------------------------ C25

Yo == <<"Y", "o">>
up == <<"u", "p">>

RetitleAddData == {[title |-> Hi], [title |-> Hi, slug |-> up], [title |-> Yo, status |-> "published"]}

RetitleEditData ==
    {[title |-> Yo], [title |-> Hi], [title |-> Yo, slug |-> <<"U", "p", "!">>],
     [status |-> "draft"]}

NextRetitle ==
    \/ \E d \in RetitleAddData :
          Room /\ add(d, Plain) /\ UNCHANGED observers
    \/ \E i \in DOMAIN posts, d \in RetitleEditData :
          edit(i, d, Plain) /\ UNCHANGED observers
    \/ Return

SpecRetitle == Init /\ [][NextRetitle]_vars

\* ------------------------------------------------------------------ C26

\* a successful edit gave another title to an item that is a draft after it and
\* has no publishedAt
C26_Case ==
    /\ last.op = "edit"
    /\ result = "ok"
    /\ posts[last.id].title # last.prev.title
    /\ posts[last.id].status = "draft"
    /\ posts[last.id].published_at = NullDate

\* the stored slug is the one generated for the stored title
AutoSlug == generateSlug(last.prev.title, posts, last.id) = last.prev.slug

BodyChanged == posts[last.id].mobiledoc # last.prev.mobiledoc

TagAttrs ==
    {[tags |-> <<"t1">>], [status |-> "draft", tags |-> <<"t1", "t2">>], [status |-> "draft"],
     [tags |-> <<>>]}

NextTags ==
    \/ \E postModel \in PostModels, action \in Actions, unsafeAttrs \in TagAttrs,
          loadedPermissions \in LoadedPermissions,
          hasUserPermission \in BOOLEAN, hasApiKeyPermission \in BOOLEAN :
             Permit(postModel, action, unsafeAttrs, loadedPermissions,
                    hasUserPermission, hasApiKeyPermission)
    \/ Return

SpecTags == Init /\ [][NextTags]_vars

\* the attributes of a request that the caller of the gate lets through to the
\* operation: those the grant does not exclude
Omit(attrs, excluded) ==
    [f \in DOMAIN attrs \ {excluded[k] : k \in DOMAIN excluded} |-> attrs[f]]

\* ------------------------------------------------------------------ C28

\* C28: every grant to an actor with the Contributor role, for add, edit or
\* destroy, excludes tags, so that no tags of the request reach the operation;
\* a grant to an actor without that role excludes nothing, and the request
\* reaches the operation whole.
C28_ContributorTagsExcluded ==
    (Asks /\ result = "ok")
    => LET passed == Omit(last.unsafeAttrs, last.returned.excludedAttrs)
       IN  IF /\ last.loadedPermissions.hasUser
              /\ "Contributor" \in last.loadedPermissions.userRoles
           THEN last.returned.excludedAttrs = <<"tags">> /\ "tags" \notin DOMAIN passed
           ELSE last.returned.excludedAttrs = <<>> /\ passed = last.unsafeAttrs

\* a Contributor is granted the edit of a draft whose request carries tags
C28_Witness ==
    /\ Asks
    /\ result = "ok"
    /\ last.action = "edit"
    /\ last.loadedPermissions.userRoles = {"Contributor"}
    /\ last.unsafeAttrs = [status |-> "draft", tags |-> <<"t1", "t2">>]
    /\ Omit(last.unsafeAttrs, last.returned.excludedAttrs) = [status |-> "draft"]

\* ------------------------------------------------------------------ emails

Mailing == [Plain EXCEPT !.send_email_when_published = TRUE]

\* the mailer has sent the email of a published item that asked for one, and
\* recorded it
mail(id) ==
    /\ last = Idle
    /\ id \in DOMAIN posts
    /\ id \notin emails
    /\ posts[id].status = "published"
    /\ posts[id].send_email_when_published
    /\ emails' = emails \cup {id}
    /\ UNCHANGED <<posts, revisions, now, last, result, events, txs, observers>>

EmailAddData == {[status |-> "draft"], [status |-> "published"]}

EmailEditData ==
    {[status |-> "published"], [status |-> "draft"],
     [status |-> "draft", send_email_when_published |-> TRUE],
     [status |-> "draft", send_email_when_published |-> FALSE],
     [status |-> "scheduled", published_at |-> Later],
     [send_email_when_published |-> TRUE]}

NextEmail ==
    \/ \E d \in EmailAddData, o \in {Plain, Mailing} :
          OneItem /\ add(d, o) /\ UNCHANGED observers
    \/ \E i \in DOMAIN posts, d \in EmailEditData, o \in {Plain, Mailing} :
          edit(i, d, o) /\ UNCHANGED observers
    \/ \E i \in DOMAIN posts : mail(i)
    \/ Return

SpecEmail == Init /\ [][NextEmail]_vars

\* ------------------------------------------------------------------ C29

\* C29: after a successful save that changed the status to draft, the
\* send_email_when_published flag of the item is true if an email is recorded
\* for the item and false if none is, whatever the flag was, whatever the
\* payload asked for it and whatever the send_email_when_published option.
C29_DraftFlagFollowsEmail ==
    (/\ IsSave
     /\ result = "ok"
     /\ posts[last.id].status = "draft"
     /\ last.prev.status # "draft")
    => posts[last.id].send_email_when_published = (last.id \in emails)

\* a published item whose email went out goes back to draft with a payload
\* that clears the flag, and keeps it
C29_Witness ==
    /\ last.op = "edit"
    /\ result = "ok"
    /\ last.prev.status = "published"
    /\ last.data = [status |-> "draft", send_email_when_published |-> FALSE]
    /\ last.id \in emails
    /\ posts[last.id].send_email_when_published

\* ------------------------------------------------------------------ rendering

Rerender == [Plain EXCEPT !.force_rerender = TRUE]

RenderAddData == {[mobiledoc |-> "m1"], [mobiledoc |-> "bad"], [title |-> Hi]}

RenderEditData ==
    {[mobiledoc |-> "m2"], [mobiledoc |-> "bad"], [title |-> Yo],
     [mobiledoc |-> "bad", title |-> Yo, slug |-> up]}

NextRender ==
    \/ \E d \in RenderAddData, o \in {Plain, Importing, Migrating} :
          OneItem /\ add(d, o) /\ UNCHANGED observers
    \/ \E i \in DOMAIN posts, d \in RenderEditData, o \in {Plain, Importing, Migrating, Rerender} :
          edit(i, d, o) /\ UNCHANGED observers
    \/ Return

SpecRender == Init /\ [][NextRender]_vars

\* ------------------------------------------------------------------ C30

\* the body the last save was to store
BodyAsked ==
    IF "mobiledoc" \in DOMAIN last.data /\ last.data.mobiledoc # NullStr THEN last.data.mobiledoc
    ELSE IF last.prev.mobiledoc # NullStr THEN last.prev.mobiledoc
    ELSE blankDocument

\* the last save had to render the body, and the body does not render
RenderFailed ==
    /\ IsSave
    /\ \/ BodyAsked # last.prev.mobiledoc
       \/ last.options.force_rerender
       \/ (last.prev.html = NullStr /\ (last.options.importing \/ last.options.migrating))
    /\ BodyAsked \notin Renderable

StatusBecame(status) == posts[last.id].status = status /\ last.prev.status # status

\* C35: the send_email_when_published flag is set by the engine alone: after a
\* successful save it is true when the save carried the option and changed the
\* status to published or scheduled, follows the email record when the status
\* changed to draft, and is the stored flag otherwise, whatever the payload
\* supplies for it.
C35_FlagEngineControlled ==
    (IsSave /\ result = "ok")
    => posts[last.id].send_email_when_published =
          IF StatusBecame("draft") THEN last.id \in emails
          ELSE IF /\ last.options.send_email_when_published
                  /\ posts[last.id].status # last.prev.status
                  /\ posts[last.id].status \in {"published", "scheduled"}
          THEN TRUE
          ELSE last.prev.send_email_when_published

\* ------------------------------------------------------------------ C37

\* C37: after a successful save that is not importing, publishedBy is the acting
\* actor when the status changed to published and the previously stored
\* publishedBy (none for a new item) in every other case, whatever the payload
\* supplies; an importing save whose payload has a publishedBy stores it.
C37_PublishedByFrame ==
    (IsSave /\ result = "ok")
    => /\ ~last.options.importing
          => posts[last.id].published_by =
                IF StatusBecame("published") THEN contextUser(last.options)
                ELSE last.prev.published_by
       /\ (/\ last.options.importing
           /\ "published_by" \in DOMAIN last.data
           /\ last.data.published_by # NullStr)
          => posts[last.id].published_by = last.data.published_by

\* an import adds a published item with the publishedBy of another actor
C37_Witness ==
    /\ last.op = "add"
    /\ result = "ok"
    /\ last.options.importing
    /\ last.options.user = "u1"
    /\ ~last.options.internal
    /\ last.data = [status |-> "published", published_by |-> "u2"]
    /\ posts[last.id].published_by = "u2"

\* ------------------------------------------------------------------ C38

\* what the slug generator returns in the last save for the bases the save can
\* hand it: the slug and the title of the payload, and the title stored
GeneratedSlugs ==
    {generateSlug(base, posts, last.id) :
        base \in {posts[last.id].title}
                 \cup (IF "slug" \in DOMAIN last.data THEN {last.data.slug} ELSE {})
                 \cup (IF "title" \in DOMAIN last.data THEN {last.data.title} ELSE {})}

\* C38: a successful save that stores a slug other than the one the item had,
\* or stores the slug of a new item, stores a slug the generator returned in
\* that save, also when the payload changes title and slug together.
C38_StoredSlugGenerated ==
    (IsSave /\ result = "ok" /\ posts[last.id].slug # last.prev.slug)
    => posts[last.id].slug \in GeneratedSlugs

\* ------------------------------------------------------------------ generated fields

NextGenerated ==
    \/ \E d \in {[mobiledoc |-> "m1"], [html |-> "hx"],
                 [mobiledoc |-> "m1", html |-> "hx", plaintext |-> "tx"]},
          o \in {Plain, Importing, Migrating} :
          OneItem /\ add(d, o) /\ UNCHANGED observers
    \/ \E i \in DOMAIN posts,
          d \in {[html |-> "hx"], [plaintext |-> "tx"], [html |-> "hx", plaintext |-> "tx"],
                 [mobiledoc |-> "m2", html |-> "hx"], [title |-> Yo]},
          o \in {Plain, Importing, Migrating} :
          edit(i, d, o) /\ UNCHANGED observers
    \/ Return

SpecGenerated == Init /\ [][NextGenerated]_vars

\* ------------------------------------------------------------------ C39

\* C39: after a successful save that is not migrating, the stored html is the
\* html the item had or the renderer's output for the stored body, and the
\* stored plaintext is the plaintext the item had or the text of the stored
\* html, whatever html or plaintext the payload supplies.
C39_GeneratedFieldsKept ==
    (IsSave /\ result = "ok" /\ ~last.options.migrating)
    => /\ posts[last.id].html \in {last.prev.html, render(posts[last.id].mobiledoc)}
       /\ posts[last.id].plaintext \in {last.prev.plaintext, fromString(posts[last.id].html)}

\* an importing edit supplies html and plaintext for an item whose body was
\* rendered, and both stay
C39_Witness ==
    /\ last.op = "edit"
    /\ result = "ok"
    /\ last.options.importing
    /\ last.data = [html |-> "hx", plaintext |-> "tx"]
    /\ posts[last.id].html = "h1"
    /\ posts[last.id].plaintext = "t1"

\* ------------------------------------------------------------------ C36

\* the hooks of the last operation have run and its transaction is open
Pending == last # Idle /\ last.step = "hooks" /\ result = "pending"

\* C36: add, edit and destroy run with a transaction, the caller's when the
\* options carry one and a new one otherwise: every operation under way has
\* one, exactly one is open for its item, and until it commits nothing the
\* operation wrote is in the tables and none of its events is delivered.
C36_AlwaysTransacting ==
    /\ \A t \in DOMAIN txs : txs[t].transacting
    /\ Pending
       => /\ Cardinality({t \in DOMAIN txs : txs[t].id = last.id /\ txs[t].given = last.given}) = 1
          /\ events = <<>>
          /\ IF last.op = "add" THEN last.id \notin DOMAIN posts
             ELSE posts[last.id] = last.prev /\ revisions[last.id] = last.prevRevs

\* a destroy handed a transaction by its caller has run its hooks: the item is
\* still there
C36_Witness ==
    /\ Pending
    /\ last.op = "destroy"
    /\ last.given
    /\ last.prev.status = "published"
    /\ last.id \in DOMAIN posts
    /\ \E t \in DOMAIN txs : txs[t].id = last.id /\ txs[t].transacting /\ txs[t].row = Deleted

\* ------------------------------------------------------------------ attached models

\* the tags and the authors attached to an item, in their order
Related == [tags |-> <<"t1", "t2">>, authors |-> <<"u1">>]

\* lines 383-391: each attached tag, then each attached author, emits attached
handleStatusForAttachedModels(related) ==
    [k \in 1..Len(related.tags) |-> [model |-> "tag", id |-> related.tags[k], event |-> "attached"]]
    \o [k \in 1..Len(related.authors) |->
          [model |-> "user", id |-> related.authors[k], event |-> "attached"]]

\* onUpdatedAttached, looking at the new status only
onUpdatedAttached_NewStatusOnly(m, related) ==
    IF m.attrs.status # m.prev.status /\ m.attrs.status = "published"
    THEN handleStatusForAttachedModels(related) ELSE <<>>

\* lines 320-322, after either branch of onUpdated
onUpdatedAttached(m, related) ==
    LET changing == m.attrs.status # m.prev.status
        isPub == m.attrs.status = "published"
        wasPub == m.prev.status = "published"
    IN  IF changing /\ (isPub \/ wasPub)
        THEN handleStatusForAttachedModels(related) ELSE <<>>

\* sink holds what the attached models emitted in the operation just done
Attaching ==
    sink' = IF last'.op = "edit" /\ result' = "ok"
            THEN onUpdatedAttached([prev |-> last'.prev, attrs |-> posts'[last'.id]], Related)
            ELSE <<>>

NextAttached ==
    \/ \E d \in TypeAddData :
          OneItem /\ add(d, Plain) /\ Attaching /\ UNCHANGED <<publishers, imported, history>>
    \/ \E i \in DOMAIN posts, d \in TypeEditData, o \in {Plain, Importing} :
          edit(i, d, o) /\ Attaching /\ UNCHANGED <<publishers, imported, history>>
    \/ Return

SpecAttached == Init /\ [][NextAttached]_vars

\* ------------------------------------------------------------------ C31

\* C31: a successful edit makes every attached tag and every attached author
\* emit attached exactly when the status changed and the old or the new status
\* is published, with or without a change of type; otherwise none of them
\* emits.
C31_ReevaluationIff ==
    (last.op = "edit" /\ result = "ok")
    => LET changed == posts[last.id].status # last.prev.status
           published == posts[last.id].status = "published" \/ last.prev.status = "published"
       IN  /\ (changed /\ published)
              => sink = <<[model |-> "tag", id |-> "t1", event |-> "attached"],
                          [model |-> "tag", id |-> "t2", event |-> "attached"],
                          [model |-> "user", id |-> "u1", event |-> "attached"]>>
           /\ ~(changed /\ published) => sink = <<>>

\* a published post is turned into a draft page
C31_Witness ==
    /\ EditChangesType
    /\ last.prev.status = "published"
    /\ posts[last.id].status = "draft"
    /\ Len(sink) = 3

\* ------------------------------------------------------------------ actions

NoActor == [type |-> "none"]

NoAction == [event |-> "none"]

\* the actor resolver: the acting user, none in an internal context
getActor(options) ==
    IF options.internal THEN NoActor ELSE [id |-> options.user, type |-> "user"]

\* lines 881-897: no action without an actor; emitChange (lines 215-226) makes
\* no use of it
getAction(event, options, id) ==
    LET actor == getActor(options)
    IN  IF actor = NoActor THEN NoAction
        ELSE [event |-> event, resource_id |-> id, resource_type |-> "post",
              actor_id |-> actor.id, actor_type |-> actor.type]

\* ------------------------------------------------------------------ C32

\* C32: a mutation with no identifiable actor emits no lifecycle event at all,
\* and every event of a mutation with an actor is one for which there is an
\* action carrying the event, the resource id, the resource type and the actor.
C32_ActorlessSilent ==
    (last # Idle /\ result = "ok")
    => \/ getActor(last.options) = NoActor /\ events = <<>>
       \/ /\ getActor(last.options) # NoActor
          /\ \A k \in 1..Len(events) :
                LET action == getAction(events[k], last.options, last.id)
                IN  /\ action.event = events[k]
                    /\ action.resource_id = last.id
                    /\ action.resource_type = "post"
                    /\ action.actor_id = last.options.user
                    /\ action.actor_type = "user"

\* ------------------------------------------------------------------ public representation

\* line 898
allowedFormats == <<"mobiledoc", "html", "plaintext">>

\* the base model's toJSON: the attributes, those of options.columns when
\* columns are given, and each loaded relation under its name
baseToJSON(attrs, related, options) ==
    LET fetched == IF "columns" \in DOMAIN options
                   THEN DOMAIN attrs \cap options.columns ELSE DOMAIN attrs
    IN  [f \in fetched \cup DOMAIN related |->
           IF f \in DOMAIN related THEN related[f] ELSE attrs[f]]

\* lines 785-798
formatsToJSON(attrs, options) ==
    LET defaultFormats == {"html"}
        formatsToKeep == IF "formats" \in DOMAIN options THEN options.formats ELSE defaultFormats
    IN  [f \in DOMAIN attrs \ {allowedFormats[k] : k \in {j \in DOMAIN allowedFormats :
                                                     allowedFormats[j] \notin formatsToKeep}}
           |-> attrs[f]]

\* toJSON without the delete of line 806
toJSON_KeepsRevisions(attrs, related, options) ==
    LET json == formatsToJSON(baseToJSON(attrs, related, options), options)
    IN  IF "columns" \notin DOMAIN options \/ "primary_tag" \in options.columns
        THEN [f \in DOMAIN json \cup {"primary_tag"} |->
                IF f # "primary_tag" THEN json[f]
                ELSE IF "tags" \in DOMAIN json /\ Len(json.tags) > 0
                        /\ json.tags[1].visibility = "public"
                     THEN json.tags[1] ELSE [visibility |-> NullStr]]
        ELSE json

\* lines 800-820
toJSON(attrs, related, options) ==
    LET json == Omit(formatsToJSON(baseToJSON(attrs, related, options), options),
                     <<"mobiledoc_revisions">>)
    IN  IF "columns" \notin DOMAIN options \/ "primary_tag" \in options.columns
        THEN [f \in DOMAIN json \cup {"primary_tag"} |->
                IF f # "primary_tag" THEN json[f]
                ELSE IF "tags" \in DOMAIN json /\ Len(json.tags) > 0
                        /\ json.tags[1].visibility = "public"
                     THEN json.tags[1] ELSE [visibility |-> NullStr]]
        ELSE json

\* a reader asks for the representation of a stored item; tags are the tags
\* attached to it, loaded with the revisions as options.withRelated says
serialize(id, tags, options) ==
    /\ last = Idle
    /\ id \in DOMAIN posts
    /\ LET all == [tags |-> tags, mobiledoc_revisions |-> revisions[id]]
           related == [r \in DOMAIN all \cap options.withRelated |-> all[r]]
       IN  last' = [op |-> "toJSON", id |-> id, options |-> options,
                    json |-> toJSON(posts[id], related, options)]
    /\ result' = "ok"
    /\ UNCHANGED <<posts, revisions, emails, now, events, txs, observers>>

NextJSON ==
    \/ \E d \in {[mobiledoc |-> "m1"], [mobiledoc |-> "m1", status |-> "published"]} :
          OneItem /\ add(d, Plain) /\ UNCHANGED observers
    \/ \E i \in DOMAIN posts, d \in {[mobiledoc |-> "m2"], [title |-> Yo]} :
          edit(i, d, Plain) /\ UNCHANGED observers
    \/ \E i \in DOMAIN posts,
          tags \in {<<>>, <<[id |-> "t1", visibility |-> "public"]>>,
                    <<[id |-> "t2", visibility |-> "internal"],
                      [id |-> "t1", visibility |-> "public"]>>},
          w \in SUBSET {"tags", "mobiledoc_revisions"} :
          \E o \in {[withRelated |-> w], [withRelated |-> w, formats |-> {"mobiledoc"}],
                    [withRelated |-> w, formats |-> {"html", "plaintext"}],
                    [withRelated |-> w, columns |-> {"title", "slug"}],
                    [withRelated |-> w, columns |-> {"title", "mobiledoc", "primary_tag"},
                     formats |-> {"mobiledoc"}]} :
             serialize(i, tags, o)
    \/ Return

SpecJSON == Init /\ [][NextJSON]_vars

\* ------------------------------------------------------------------ C33

\* C33: the representation toJSON gives never contains the revision log,
\* whatever the columns, the formats and the relations asked for and whatever
\* the state of the item.
C33_RevisionsNeverExposed ==
    last.op = "toJSON" => "mobiledoc_revisions" \notin DOMAIN last.json

\* the revisions of an edited item are loaded and the body asked for
C33_Witness ==
    /\ last.op = "toJSON"
    /\ "mobiledoc_revisions" \in last.options.withRelated
    /\ Len(revisions[last.id]) > 1
    /\ "mobiledoc" \in DOMAIN last.json
    /\ "tags" \in DOMAIN last.json
    /\ last.json.primary_tag.visibility = NullStr

\* ------------------------------------------------------------------ tags to save

MaxTags == 3

\* String.prototype.toLocaleLowerCase on the characters of the model
toLocaleLowerCase(name) ==
    [k \in DOMAIN name |-> IF name[k] \in DOMAIN UpperToLower THEN UpperToLower[name[k]]
                           ELSE name[k]]

\* each, comparing the names as they are
each_CaseSensitive(tagsToSave, item) ==
    IF \E i \in DOMAIN tagsToSave :
          /\ "name" \in DOMAIN tagsToSave[i] /\ tagsToSave[i].name # <<>>
          /\ "name" \in DOMAIN item /\ item.name # <<>>
          /\ tagsToSave[i].name = item.name
    THEN tagsToSave
    ELSE Append(tagsToSave, item)

\* lines 457-465: the callback of _.each; a name that is missing or empty is
\* falsy and matches nothing
each(tagsToSave, item) ==
    IF \E i \in DOMAIN tagsToSave :
          /\ "name" \in DOMAIN tagsToSave[i] /\ tagsToSave[i].name # <<>>
          /\ "name" \in DOMAIN item /\ item.name # <<>>
          /\ toLocaleLowerCase(tagsToSave[i].name) = toLocaleLowerCase(item.name)
    THEN tagsToSave
    ELSE Append(tagsToSave, item)

RECURSIVE uniqTags(_)
\* lines 452-468: tagsToSave after _.each over the tags of the model
uniqTags(tags) ==
    IF tags = <<>> THEN <<>>
    ELSE each(uniqTags(SubSeq(tags, 1, Len(tags) - 1)), tags[Len(tags)])

\* onSaving is handed a model with tags and sets the tags to save
saveTags(tags) ==
    /\ last = Idle
    /\ last' = [op |-> "tags", tags |-> tags, tagsToSave |-> uniqTags(tags)]
    /\ result' = "ok"
    /\ UNCHANGED <<posts, revisions, emails, now, events, txs, observers>>

NextDedupe ==
    \/ \E n \in 0..MaxTags :
          \E tags \in [1..n -> {[name |-> Hi], [name |-> <<"h", "i">>], [name |-> Yo],
                               [name |-> <<>>], [id |-> "t1"]}] :
             saveTags(tags)
    \/ Return

SpecDedupe == Init /\ [][NextDedupe]_vars

\* ------------------------------------------------------------------ C40

Named(item) == "name" \in DOMAIN item /\ item.name # <<>>

SameName(a, b) ==
    "name" \in DOMAIN a /\ "name" \in DOMAIN b
    /\ toLocaleLowerCase(a.name) = toLocaleLowerCase(b.name)

SameGivenName(a, b) == Named(a) /\ Named(b) /\ SameName(a, b)

\* the items of tags no earlier item of which has the same name, a name being
\* any name or, if given, a non-empty one
FirstOccurrences(tags, given) ==
    LET first(k) == ~\E j \in 1..(k - 1) :
                        IF given THEN SameGivenName(tags[j], tags[k])
                        ELSE SameName(tags[j], tags[k])
        kept == SelectSeq([k \in 1..Len(tags) |-> k], first)
    IN  [p \in DOMAIN kept |-> tags[kept[p]]]

\* C40 as stated: in the tags to save no two tags have names equal ignoring
\* case, and the tags to save are the first occurrence of each such name, in
\* the order of the input.
C40_Original ==
    last.op = "tags"
    => /\ \A i, j \in DOMAIN last.tagsToSave :
             i # j => ~SameName(last.tagsToSave[i], last.tagsToSave[j])
       /\ last.tagsToSave = FirstOccurrences(last.tags, FALSE)

\* C40, amended: in the tags to save no two tags have non-empty names equal
\* ignoring case; the tags to save are the tags without a name or with an
\* empty one, and the first occurrence of each non-empty name, in the order of
\* the input.
C40_UniqueGivenNames ==
    last.op = "tags"
    => /\ \A i, j \in DOMAIN last.tagsToSave :
             i # j => ~SameGivenName(last.tagsToSave[i], last.tagsToSave[j])
       /\ last.tagsToSave = FirstOccurrences(last.tags, TRUE)

\* Hi, hi and Hi again, around a tag of another name
C40_Witness ==
    /\ last.op = "tags"
    /\ last.tags = <<[name |-> <<"h", "i">>], [name |-> Yo], [name |-> Hi]>>
    /\ last.tagsToSave = <<[name |-> <<"h", "i">>], [name |-> Yo]>>

====
